---- MODULE Spec2Model ----
(***************************************************************************)
(* Model of the code-planner review pipeline: the in-memory rate limiter,  *)
(* the bounded file loaders, the streaming standard pipeline               *)
(* (executePipeline behind the SSE route) and the agent-review route.      *)
(***************************************************************************)
EXTENDS Integers, Sequences, FiniteSets, TLC

(***************************************************************************)
(* Bounds of the model                                                     *)
(***************************************************************************)
MaxTicks == 2          \* clock advances at most this many half-windows
MaxAdmitted == 12      \* admitted rate-limit checks kept in the history
MaxPaths == 10         \* longest candidate list handed to a loader on its own
MaxTree == 45          \* entries of the largest repository tree handed to rankFiles
MaxScopeLen == 3       \* longest scope string enumerated over ScopeChars
MaxCommits == 7        \* largest commit count asked for when commit scopes run on their own

(***************************************************************************)
(* Program constants                                                       *)
(***************************************************************************)
RATE_MAX_REQUESTS == 10
RATE_WINDOW_MS == 60000
MAX_TOTAL_CHARS == 220000
MAX_FILE_CHARS == 30000
MIN_PARTIAL_CHARS == 1000
LOADER_CONCURRENCY == 4
MAX_LOADER_PATHS == 25
COMMIT_BATCH_SIZE == 5
MAX_FAN == 4

Keys == {"alice", "bob"}
TickMs == RATE_WINDOW_MS \div 2
Instants == {i * TickMs : i \in 0..(MaxTicks + 1)}

NoCheck == [key |-> "none", ok |-> TRUE, inWindow |-> 0]

VARIABLES
    limits,      \* rate-limit.ts `limits`: key -> timestamps (absent keys not in DOMAIN)
    now,         \* Date.now()
    admitted,    \* history: key -> timestamps of the checks that returned true
    lastCheck    \* history: the latest checkRateLimit call and what it returned

VARIABLES
    ldMode,      \* which loader runs: "standard" (file-loader.ts) or "agent" (agent route)
    ldPc,        \* "idle", "await" (a batch is in flight) or "done"
    ldPaths,     \* the candidate paths handed to the loader
    ldI,         \* the loop variable i: offset of the batch in flight
    ldBatch,     \* the Promise.all of the batch: one slot per path, by position
    ldFetched,   \* agent: `results` of fetchFilesWithConcurrency
    ldTotal,     \* totalChars
    ldResults    \* standard: `results`; agent: `files`

VARIABLES
    pc,          \* where the request being served is suspended ("idle": none)
    req,         \* the request: entry point, session and body
    rl,          \* history: the admission check made for this request, if any
    trace,       \* history: frames enqueued on the stream and outbound calls started
    imp,         \* the improver's output {improvedUserPrompt, keywords, maxFiles}
    ranked,      \* standard: rankedPaths; agent: filePaths
    fan,         \* the calls of the fan-out in flight, by input position
    results,     \* the values array of the fan-out's Promise.all
    cm,          \* fetchCommitFiles: the shas, the batch in flight and the file set
    response     \* the HTTP response of the route

VARIABLES
    fnIn,        \* a library function called on its own: its name and arguments
    fnOut        \* the value it returned

fnVars == <<fnIn, fnOut>>
rateVars == <<limits, now, admitted, lastCheck>>
loaderVars == <<ldMode, ldPc, ldPaths, ldI, ldBatch, ldFetched, ldTotal, ldResults>>
reqVars == <<pc, req, rl, trace, imp, ranked, fan, results, cm, response>>
vars == <<limits, now, admitted, lastCheck,
          ldMode, ldPc, ldPaths, ldI, ldBatch, ldFetched, ldTotal, ldResults,
          pc, req, rl, trace, imp, ranked, fan, results, cm, response, fnIn, fnOut>>

(***************************************************************************)
(* Rate limiter                                                            *)
(***************************************************************************)
\* limits.get(key) ?? []
LimitsGet(lim, key) == IF key \in DOMAIN lim THEN lim[key] ELSE <<>>

\* timestamps.filter((t) => now - t < windowMs)
ValidTimestamps(timestamps, t0, windowMs) ==
    SelectSeq(timestamps, LAMBDA t : t0 - t < windowMs)

RateLimitFullOffByOne(valid, maxRequests) == Len(valid) > maxRequests
\* valid.length >= maxRequests
RateLimitFull(valid, maxRequests) == Len(valid) >= maxRequests

\* the value checkRateLimit returns
CheckRateLimitAllowed(lim, key, t0, maxRequests, windowMs) ==
    ~RateLimitFull(ValidTimestamps(LimitsGet(lim, key), t0, windowMs), maxRequests)

\* checkRateLimit storing the unfiltered list with the new timestamp
CheckRateLimitStoreUnpruned(lim, key, t0, maxRequests, windowMs) ==
    LET valid == ValidTimestamps(LimitsGet(lim, key), t0, windowMs)
    IN  IF RateLimitFull(valid, maxRequests)
        THEN lim
        ELSE [k \in (DOMAIN lim) \cup {key} |->
                 IF k = key THEN Append(LimitsGet(lim, key), t0) ELSE lim[k]]
\* the map checkRateLimit leaves behind
CheckRateLimitStore(lim, key, t0, maxRequests, windowMs) ==
    LET valid == ValidTimestamps(LimitsGet(lim, key), t0, windowMs)
    IN  IF RateLimitFull(valid, maxRequests)
        THEN lim
        ELSE [k \in (DOMAIN lim) \cup {key} |->
                 IF k = key THEN Append(valid, t0) ELSE lim[k]]

\* admitted checks of key with a timestamp in (t - windowMs, t]
AdmittedInWindow(key, t, windowMs) ==
    Cardinality({i \in 1..Len(admitted[key]) :
                    t - windowMs < admitted[key][i] /\ admitted[key][i] <= t})

TotalAdmitted == Len(admitted["alice"]) + Len(admitted["bob"])

\* one call checkRateLimit(key, 10, 60000)
RateLimitCall(key) ==
    LET ok == CheckRateLimitAllowed(limits, key, now, RATE_MAX_REQUESTS, RATE_WINDOW_MS)
    IN  /\ limits' = CheckRateLimitStore(limits, key, now, RATE_MAX_REQUESTS, RATE_WINDOW_MS)
        /\ admitted' = IF ok THEN [admitted EXCEPT ![key] = Append(@, now)] ELSE admitted
        /\ lastCheck' = [key |-> key, ok |-> ok,
                         inWindow |-> AdmittedInWindow(key, now, RATE_WINDOW_MS)]
        /\ UNCHANGED now

\* checkRateLimit called on its own
CheckRateLimit(key) ==
    /\ TotalAdmitted < MaxAdmitted
    /\ RateLimitCall(key)
    /\ UNCHANGED loaderVars
    /\ UNCHANGED reqVars
    /\ UNCHANGED fnVars

\* the map cleanupExpiredEntries(windowMs) leaves behind
CleanupStore(lim, t0, windowMs) ==
    [k \in {q \in DOMAIN lim : ValidTimestamps(lim[q], t0, windowMs) # <<>>} |->
        ValidTimestamps(lim[k], t0, windowMs)]

\* cleanupExpiredEntries() called by a background job
CleanupExpiredEntries ==
    /\ limits' = CleanupStore(limits, now, RATE_WINDOW_MS)
    /\ UNCHANGED <<now, admitted, lastCheck>>
    /\ UNCHANGED loaderVars
    /\ UNCHANGED reqVars
    /\ UNCHANGED fnVars

\* time passes between calls
Tick ==
    /\ now + TickMs <= MaxTicks * TickMs
    /\ now' = now + TickMs
    /\ UNCHANGED <<limits, admitted, lastCheck>>
    /\ UNCHANGED loaderVars
    /\ UNCHANGED reqVars
    /\ UNCHANGED fnVars

NoRequest == [entry |-> "none"]
NoResponse == [kind |-> "none"]
NoImprover == [keywords |-> <<>>, maxFiles |-> 0, improvedUserPrompt |-> <<>>]
NoCommits == [shas |-> <<>>, i |-> 0, batch |-> <<>>, files |-> <<>>]

RequestIdle ==
    /\ pc = "idle"
    /\ req = NoRequest
    /\ rl = "none"
    /\ trace = <<>>
    /\ imp = NoImprover
    /\ ranked = <<>>
    /\ fan = <<>>
    /\ results = <<>>
    /\ cm = NoCommits
    /\ response = NoResponse

RateIdle ==
    /\ limits = << >>
    /\ now = 0
    /\ admitted = [k \in Keys |-> <<>>]
    /\ lastCheck = NoCheck

NoCall == [fn |-> "none"]
NotReturned == [returned |-> FALSE]
Returned(v) == [returned |-> TRUE, value |-> v]

FnIdle == fnIn = NoCall /\ fnOut = NotReturned

LoaderIdle ==
    /\ ldMode = "none"
    /\ ldPc = "idle"
    /\ ldPaths = <<>>
    /\ ldI = 0
    /\ ldBatch = <<>>
    /\ ldFetched = <<>>
    /\ ldTotal = 0
    /\ ldResults = <<>>

RateInit == RateIdle /\ LoaderIdle /\ RequestIdle /\ FnIdle

RateNext ==
    \/ \E key \in Keys : CheckRateLimit(key)
    \/ CleanupExpiredEntries
    \/ Tick

SpecRate == RateInit /\ [][RateNext]_vars

\* C2: among the admitted checks of a key at most 10 fall in any window
\* (t - 60000, t], and a check made with 10 admitted in its window is refused.
\* (Date.now() does not go backwards between calls.)
C2_SlidingWindow ==
    /\ \A key \in Keys, t \in Instants :
           AdmittedInWindow(key, t, RATE_WINDOW_MS) <= RATE_MAX_REQUESTS
    /\ (lastCheck.key \in Keys /\ lastCheck.inWindow >= RATE_MAX_REQUESTS) => ~lastCheck.ok

\* the list stored for key is there, is not empty and has no timestamp that
\* left the window ending at t
PrunedAt(lim, key, t) ==
    /\ key \in DOMAIN lim
    /\ lim[key] # <<>>
    /\ \A i \in 1..Len(lim[key]) : t - lim[key][i] < RATE_WINDOW_MS

\* C27: after every check of a key, admitted or refused, the list stored for
\* the key has no timestamp older than the window; the map never holds an
\* empty list, and after a clean-up it holds no stale timestamp at all.
C27_Pruning ==
    /\ [](\A key \in DOMAIN limits : limits[key] # <<>>)
    /\ [][/\ \A key \in Keys : CheckRateLimit(key) => PrunedAt(limits', key, now)
          /\ CleanupExpiredEntries => \A key \in DOMAIN limits' : PrunedAt(limits', key, now)]_vars

\* a key checked after its first timestamp left the window: the timestamp
\* was admitted once and is no longer stored
C27_Witness ==
    /\ lastCheck.key \in Keys /\ lastCheck.ok
    /\ now = RATE_WINDOW_MS
    /\ \E i \in 1..Len(admitted[lastCheck.key]) : admitted[lastCheck.key][i] = 0
    /\ PrunedAt(limits, lastCheck.key, now)
    /\ limits[lastCheck.key][Len(limits[lastCheck.key])] = now

C2_Witness ==
    /\ lastCheck.key \in Keys
    /\ ~lastCheck.ok
    /\ now > 0
    /\ \E k \in Keys \ {lastCheck.key} : Len(admitted[k]) > 0
    /\ \E i \in 1..Len(admitted[lastCheck.key]) : admitted[lastCheck.key][i] < now

(***************************************************************************)
(* File contents and the sanitizer                                         *)
(*                                                                         *)
(* A content is a run of marked segments followed by `pad` plain           *)
(* characters.  "role" is a line-leading `user:`, "tok" a special token    *)
(* `<|endoftext|>`, "inj" the phrase `override:`; "ROLE" and "REDACTED"    *)
(* are the texts the sanitizer puts in their place.                        *)
(***************************************************************************)
SegLen(seg) ==
    CASE seg = "role" -> 5
      [] seg = "tok" -> 13
      [] seg = "inj" -> 9
      [] seg = "ROLE" -> 8
      [] seg = "REDACTED" -> 10

RECURSIVE SegsLength(_)
SegsLength(segs) ==
    IF segs = <<>> THEN 0 ELSE SegLen(Head(segs)) + SegsLength(Tail(segs))

\* content.length
ContentLength(c) == SegsLength(c.segs) + c.pad

\* the longest prefix of whole segments that fits in n characters
RECURSIVE SegsPrefix(_, _)
SegsPrefix(segs, n) ==
    IF segs = <<>> \/ SegLen(Head(segs)) > n
    THEN <<>>
    ELSE <<Head(segs)>> \o SegsPrefix(Tail(segs), n - SegLen(Head(segs)))

\* content.slice(0, n): a segment cut in two leaves plain characters
Slice(c, n) ==
    IF ContentLength(c) <= n
    THEN c
    ELSE LET kept == SegsPrefix(c.segs, n)
         IN  [segs |-> kept, pad |-> n - SegsLength(kept)]

RECURSIVE RewriteSegs(_)
RewriteSegs(segs) ==
    IF segs = <<>> THEN <<>>
    ELSE LET h == Head(segs)
         IN  (CASE h = "role" -> <<"ROLE">>
                [] h = "tok" -> <<>>
                [] h = "inj" -> <<"REDACTED">>
                [] OTHER -> <<h>>) \o RewriteSegs(Tail(segs))

sanitizeNoCap(c, maxLength) == [segs |-> RewriteSegs(c.segs), pad |-> c.pad]
\* sanitizeFileContent(content, maxLength)
sanitizeFileContent(c, maxLength) ==
    IF ContentLength(c) = 0
    THEN [segs |-> <<>>, pad |-> 0]
    ELSE Slice([segs |-> RewriteSegs(c.segs), pad |-> c.pad], maxLength)

(***************************************************************************)
(* The sanitizer on characters                                             *)
(*                                                                         *)
(* The same function with its input as a sequence of characters, each      *)
(* replace done as String.prototype.replace does it with a global regular  *)
(* expression: matches are looked for from left to right in the input of   *)
(* that replace, a match is replaced and the search goes on after it, and  *)
(* the text put in place is never searched again.  The inputs are in lower *)
(* case (the i flag changes nothing on them); of the five injection        *)
(* patterns /override:/ is the one whose words the inputs can spell.       *)
(***************************************************************************)
StartsWithAt(s, i, w) ==
    /\ i + Len(w) - 1 <= Len(s)
    /\ SubSeq(s, i, i + Len(w) - 1) = w

RoleWords == {<<"s", "y", "s", "t", "e", "m", ":">>,
              <<"u", "s", "e", "r", ":">>,
              <<"a", "s", "s", "i", "s", "t", "a", "n", "t", ":">>,
              <<"r", "o", "l", "e", ":">>}
RoleText == <<"[", "R", "O", "L", "E", "]", ":", " ">>
OverrideWord == <<"o", "v", "e", "r", "r", "i", "d", "e", ":">>
RedactedText == <<"[", "R", "E", "D", "A", "C", "T", "E", "D", "]">>
\* \s
RegexWhiteSpace == {" ", "\n", "\t", "\r"}

\* the last index of the run of characters of `set` that starts at i (i - 1 if none)
RECURSIVE RunEnd(_, _, _)
RunEnd(s, i, set) ==
    IF i <= Len(s) /\ s[i] \in set THEN RunEnd(s, i + 1, set) ELSE i - 1

\* ^ under the m flag
AtLineStart(s, i) == i = 1 \/ s[i - 1] \in {"\n", "\r"}

\* where the match of a pattern that starts at i ends, 0 if there is none
\*   "role"     /^(system|user|assistant|role):\s*/gim
\*   "token"    /<\|[^|]+\|>/g
\*   "override" /override:/gi
MatchEnd(kind, s, i) ==
    CASE kind = "role" ->
           IF AtLineStart(s, i) /\ \E w \in RoleWords : StartsWithAt(s, i, w)
           THEN LET w == CHOOSE x \in RoleWords : StartsWithAt(s, i, x)
                IN  RunEnd(s, i + Len(w), RegexWhiteSpace)
           ELSE 0
      [] kind = "token" ->
           IF StartsWithAt(s, i, <<"<", "|">>)
           THEN LET j == RunEnd(s, i + 2, {s[k] : k \in 1..Len(s)} \ {"|"}) + 1
                IN  IF j > i + 2 /\ StartsWithAt(s, j, <<"|", ">">>) THEN j + 1 ELSE 0
           ELSE 0
      [] kind = "override" ->
           IF StartsWithAt(s, i, OverrideWord) THEN i + Len(OverrideWord) - 1 ELSE 0

\* s.replace(pattern, text), from index i on
RECURSIVE ReplaceFrom(_, _, _, _)
ReplaceFrom(kind, s, i, text) ==
    IF i > Len(s) THEN <<>>
    ELSE LET e == MatchEnd(kind, s, i)
         IN  IF e > 0
             THEN text \o ReplaceFrom(kind, s, e + 1, text)
             ELSE <<s[i]>> \o ReplaceFrom(kind, s, i + 1, text)

\* sanitizeFileContent(content, maxLength) on a sequence of characters
sanitizeFileContentText(content, maxLength) ==
    IF content = <<>>
    THEN <<>>
    ELSE LET roles == ReplaceFrom("role", content, 1, RoleText)
             tokens == ReplaceFrom("token", roles, 1, <<>>)
             cleaned == ReplaceFrom("override", tokens, 1, RedactedText)
         IN  SubSeq(cleaned, 1, IF Len(cleaned) < maxLength THEN Len(cleaned) ELSE maxLength)

EmptyContent == [segs |-> <<>>, pad |-> 0]
\* the contents a fetch can return in the model
OversizedFile == [segs |-> <<>>, pad |-> MAX_FILE_CHARS + 1]
FullRoleFile == [segs |-> <<"role">>, pad |-> MAX_FILE_CHARS - 5]
MidTokFile == [segs |-> <<"tok">>, pad |-> 9487]
FetchContents == {OversizedFile, FullRoleFile, MidTokFile}

Pending == [st |-> "pending"]
Failed == [st |-> "null"]
FetchOutcomes ==
    {[st |-> "error"]} \cup {[st |-> "ok", content |-> c] : c \in FetchContents}

(***************************************************************************)
(* Bounded file loaders                                                    *)
(***************************************************************************)
\* a batch that takes every remaining path
BatchOfRest(paths, i, concurrency) == SubSeq(paths, i + 1, Len(paths))
\* paths.slice(i, i + concurrency), i counted from 0
BatchOf(paths, i, concurrency) ==
    SubSeq(paths, i + 1, IF i + concurrency < Len(paths) THEN i + concurrency ELSE Len(paths))

\* file-loader.ts: the callback of batch.map, given how the fetch ended
StandardFetchResult(path, outcome) ==
    IF outcome.st = "error" THEN Failed
    ELSE IF ContentLength(outcome.content) > MAX_FILE_CHARS THEN Failed
    ELSE [st |-> "file", path |-> path,
          content |-> sanitizeFileContent(outcome.content, MAX_FILE_CHARS)]

\* agent route: the fetcher passed to fetchFilesWithConcurrency, inside its try/catch
AgentFetchResult(path, outcome) ==
    IF outcome.st = "error" THEN Failed
    ELSE IF ContentLength(outcome.content) > MAX_FILE_CHARS
         THEN [st |-> "file", path |-> path, content |-> EmptyContent]
         ELSE [st |-> "file", path |-> path, content |-> outcome.content]

\* the budget loop going on to the next file after one did not fit
StandardBudgetStepNoStop(acc, file) ==
    IF file.st # "file" THEN acc
    ELSE IF acc.total + ContentLength(file.content) > MAX_TOTAL_CHARS
         THEN acc
         ELSE [total |-> acc.total + ContentLength(file.content),
               results |-> Append(acc.results, file), stop |-> FALSE]
\* file-loader.ts: one turn of `for (const file of batchResults)`
StandardBudgetStep(acc, file) ==
    IF acc.stop \/ file.st # "file" THEN acc
    ELSE IF acc.total + ContentLength(file.content) > MAX_TOTAL_CHARS
         THEN LET remaining == MAX_TOTAL_CHARS - acc.total
              IN  [total |-> acc.total,
                   results |-> IF remaining > MIN_PARTIAL_CHARS
                               THEN Append(acc.results,
                                           [st |-> "file", path |-> file.path,
                                            content |-> Slice(file.content, remaining)])
                               ELSE acc.results,
                   stop |-> TRUE]
         ELSE [total |-> acc.total + ContentLength(file.content),
               results |-> Append(acc.results, file), stop |-> FALSE]

RECURSIVE StandardBudget(_, _)
StandardBudget(acc, batchResults) ==
    IF batchResults = <<>> THEN acc
    ELSE StandardBudget(StandardBudgetStep(acc, Head(batchResults)), Tail(batchResults))

\* agent route: one turn of `for (const file of fetchedFiles)` with its break
AgentBudgetStep(acc, file) ==
    IF acc.stop THEN acc
    ELSE IF acc.total + ContentLength(file.content) > MAX_TOTAL_CHARS
         THEN [acc EXCEPT !.stop = TRUE]
         ELSE [total |-> acc.total + ContentLength(file.content),
               results |-> Append(acc.results, file), stop |-> FALSE]

RECURSIVE AgentBudget(_, _)
AgentBudget(acc, fetched) ==
    IF fetched = <<>> THEN acc
    ELSE AgentBudget(AgentBudgetStep(acc, Head(fetched)), Tail(fetched))

\* batchResults.filter((r) => r !== null && r.content.length > 0)
AgentKeep(batchResults) ==
    SelectSeq(batchResults, LAMBDA r : r.st = "file" /\ ContentLength(r.content) > 0)

AllSettled(batch) == \A j \in 1..Len(batch) : batch[j] # Pending

\* the loader is called: the first batch's fetches start, or there is nothing to fetch
LoaderBegin(mode, paths) ==
    /\ ldMode' = mode
    /\ ldPaths' = paths
    /\ ldI' = 0
    /\ ldFetched' = <<>>
    /\ ldTotal' = 0
    /\ ldResults' = <<>>
    /\ IF Len(paths) = 0
       THEN ldPc' = "done" /\ ldBatch' = <<>>
       ELSE /\ ldPc' = "await"
            /\ ldBatch' = [j \in 1..Len(BatchOf(paths, 0, LOADER_CONCURRENCY)) |-> Pending]

\* one fetch of the batch in flight settles, in any order
FetchSettle(j, outcome) ==
    /\ ldPc = "await"
    /\ j \in 1..Len(ldBatch)
    /\ ldBatch[j] = Pending
    /\ LET path == ldPaths[ldI + j]
       IN  ldBatch' = [ldBatch EXCEPT ![j] =
                          IF ldMode = "standard"
                          THEN StandardFetchResult(path, outcome)
                          ELSE AgentFetchResult(path, outcome)]
    /\ UNCHANGED <<ldMode, ldPc, ldPaths, ldI, ldFetched, ldTotal, ldResults>>

\* fetchFilesWithEarlyTermination: Promise.all of the batch resolved
StandardBatchDone ==
    /\ ldPc = "await" /\ ldMode = "standard"
    /\ AllSettled(ldBatch)
    /\ LET acc == StandardBudget([total |-> ldTotal, results |-> ldResults, stop |-> FALSE],
                                 ldBatch)
           next == ldI + LOADER_CONCURRENCY
           more == ~acc.stop /\ next < Len(ldPaths) /\ acc.total < MAX_TOTAL_CHARS
       IN  /\ ldTotal' = acc.total
           /\ ldResults' = acc.results
           /\ ldI' = IF more THEN next ELSE ldI
           /\ ldPc' = IF more THEN "await" ELSE "done"
           /\ ldBatch' = IF more
                         THEN [j \in 1..Len(BatchOf(ldPaths, next, LOADER_CONCURRENCY)) |-> Pending]
                         ELSE <<>>
    /\ UNCHANGED <<ldMode, ldPaths, ldFetched>>

\* fetchFilesWithConcurrency: Promise.all of the batch resolved; after the last
\* batch the route applies the total budget
AgentBatchDone ==
    /\ ldPc = "await" /\ ldMode = "agent"
    /\ AllSettled(ldBatch)
    /\ LET fetched == ldFetched \o AgentKeep(ldBatch)
           next == ldI + LOADER_CONCURRENCY
           more == next < Len(ldPaths)
           acc == AgentBudget([total |-> 0, results |-> <<>>, stop |-> FALSE], fetched)
       IN  /\ ldFetched' = fetched
           /\ ldI' = IF more THEN next ELSE ldI
           /\ ldPc' = IF more THEN "await" ELSE "done"
           /\ ldBatch' = IF more
                         THEN [j \in 1..Len(BatchOf(ldPaths, next, LOADER_CONCURRENCY)) |-> Pending]
                         ELSE <<>>
           /\ ldTotal' = IF more THEN ldTotal ELSE acc.total
           /\ ldResults' = IF more THEN ldResults ELSE acc.results
    /\ UNCHANGED <<ldMode, ldPaths>>

RECURSIVE SumLengths(_)
SumLengths(files) ==
    IF files = <<>> THEN 0 ELSE ContentLength(Head(files).content) + SumLengths(Tail(files))

(***************************************************************************)
(* Strings the code inspects character by character are sequences of       *)
(* one-character strings.                                                  *)
(***************************************************************************)
UpperChars == <<"A", "B", "C", "D", "E", "F", "G", "H", "I", "J", "K", "L", "M", "N", "O", "P", "Q", "R", "S", "T", "U", "V", "W", "X", "Y", "Z">>
LowerChars == <<"a", "b", "c", "d", "e", "f", "g", "h", "i", "j", "k", "l", "m", "n", "o", "p", "q", "r", "s", "t", "u", "v", "w", "x", "y", "z">>
DigitChars == {"0", "1", "2", "3", "4", "5", "6", "7", "8", "9"}

ToLowerChar(c) ==
    IF \E i \in 1..26 : UpperChars[i] = c
    THEN LowerChars[CHOOSE i \in 1..26 : UpperChars[i] = c]
    ELSE c

\* s.toLowerCase()
ToLowerCase(s) == [i \in 1..Len(s) |-> ToLowerChar(s[i])]

\* s.includes(k)
Includes(s, k) ==
    \E i \in 1..(Len(s) - Len(k) + 1) : SubSeq(s, i, i + Len(k) - 1) = k

\* s.startsWith(k)
StartsWith(s, k) == Len(k) <= Len(s) /\ SubSeq(s, 1, Len(k)) = k

\* s.endsWith(k)
EndsWith(s, k) == Len(k) <= Len(s) /\ SubSeq(s, Len(s) - Len(k) + 1, Len(s)) = k


\* s.split("/").pop()
LastSegment(s) ==
    LET slashes == {i \in 1..Len(s) : s[i] = "/"}
    IN  IF slashes = {} THEN s
        ELSE SubSeq(s, (CHOOSE i \in slashes : \A j \in slashes : j <= i) + 1, Len(s))

\* arr.some((k) => words.includes(k))
SomeIn(keywords, words) == \E i \in 1..Len(keywords) : keywords[i] \in words

(***************************************************************************)
(* File ranker (repo-search.ts)                                            *)
(***************************************************************************)
UiWords == {<<"u", "i">>, <<"r", "e", "a", "c", "t">>, <<"c", "o", "m", "p", "o", "n", "e", "n", "t">>, <<"m", "o", "d", "a", "l">>, <<"p", "a", "g", "e">>}
ApiWords == {<<"a", "p", "i">>, <<"r", "o", "u", "t", "e">>, <<"e", "n", "d", "p", "o", "i", "n", "t">>, <<"s", "e", "r", "v", "e", "r">>}
AuthWords == {<<"a", "u", "t", "h">>, <<"l", "o", "g", "i", "n">>, <<"o", "a", "u", "t", "h">>, <<"n", "e", "x", "t", "a", "u", "t", "h">>}

RECURSIVE KeywordScore(_, _, _)
KeywordScore(p, filename, keywords) ==
    IF keywords = <<>> THEN 0
    ELSE (IF Includes(filename, Head(keywords)) THEN 8
          ELSE IF Includes(p, Head(keywords)) THEN 4 ELSE 0)
         + KeywordScore(p, filename, Tail(keywords))

\* scorePath(path, keywords)
scorePath(path, keywords) ==
    LET p == ToLowerCase(path)
        filename == LastSegment(p)
    IN  KeywordScore(p, filename, keywords)
        + (IF SomeIn(keywords, UiWords) /\ (EndsWith(p, <<".", "t", "s", "x">>) \/ EndsWith(p, <<".", "j", "s", "x">>))
           THEN 2 ELSE 0)
        + (IF SomeIn(keywords, ApiWords) /\ Includes(p, <<"/", "a", "p", "i", "/">>) THEN 2 ELSE 0)
        + (IF SomeIn(keywords, AuthWords) /\ Includes(p, <<"a", "u", "t", "h">>) THEN 2 ELSE 0)
        - (IF Includes(p, <<"n", "o", "d", "e", "_", "m", "o", "d", "u", "l", "e", "s", "/">>) THEN 100 ELSE 0)
        - (IF Includes(p, <<".", "n", "e", "x", "t", "/">>) THEN 100 ELSE 0)
        - (IF EndsWith(p, <<".", "l", "o", "c", "k">>) THEN 5 ELSE 0)

\* insert r into a list sorted by descending score, after its equals (sort is stable)
RECURSIVE InsertByScore(_, _)
InsertByScore(sorted, r) ==
    IF sorted = <<>> THEN <<r>>
    ELSE IF Head(sorted).score >= r.score
         THEN <<Head(sorted)>> \o InsertByScore(Tail(sorted), r)
         ELSE <<r>> \o sorted

\* .sort((a, b) => b.score - a.score)
RECURSIVE SortByScore(_)
SortByScore(rs) ==
    IF rs = <<>> THEN <<>>
    ELSE InsertByScore(SortByScore(SubSeq(rs, 1, Len(rs) - 1)), rs[Len(rs)])

Max(a, b) == IF a >= b THEN a ELSE b
Min(a, b) == IF a <= b THEN a ELSE b

rankFilesNoSlice(tree, keywords, maxFiles) ==
    LET blobs == SelectSeq(tree, LAMBDA t : t.type = "blob")
        scored == [i \in 1..Len(blobs) |->
                      [path |-> blobs[i].path, score |-> scorePath(blobs[i].path, keywords)]]
        sorted == SortByScore(SelectSeq(scored, LAMBDA r : r.score > 0))
    IN  [i \in 1..Len(sorted) |-> sorted[i].path]
\* rankFiles(tree, keywords, maxFiles)
rankFiles(tree, keywords, maxFiles) ==
    LET blobs == SelectSeq(tree, LAMBDA t : t.type = "blob")
        scored == [i \in 1..Len(blobs) |->
                      [path |-> blobs[i].path, score |-> scorePath(blobs[i].path, keywords)]]
        sorted == SortByScore(SelectSeq(scored, LAMBDA r : r.score > 0))
        top == SubSeq(sorted, 1, Min(Len(sorted), Max(maxFiles * 2, 20)))
    IN  [i \in 1..Len(top) |-> top[i].path]

(***************************************************************************)
(* LLM replies and JSON                                                    *)
(*                                                                         *)
(* A completion text is [wrap, json]: `json` is the JSON value written in  *)
(* the text (NoJson when there is none) and `wrap` tells whether prose     *)
(* surrounds it.  JSON values are tagged records.                          *)
(***************************************************************************)
NoJson == [t |-> "none"]
JNull == [t |-> "null"]
JStr(v) == [t |-> "str", v |-> v]
JNum(v) == [t |-> "num", finite |-> TRUE, v |-> v]
JArr(v) == [t |-> "arr", v |-> v]
JBool(v) == [t |-> "bool", v |-> v]
JInfinity == [t |-> "num", finite |-> FALSE, v |-> 0]
JObj(f) == [t |-> "obj", f |-> f]
EmptyText == [wrap |-> FALSE, json |-> NoJson, empty |-> TRUE]
Prose(id) == [wrap |-> TRUE, json |-> NoJson, empty |-> FALSE, id |-> id]
JsonText(j) == [wrap |-> FALSE, json |-> j, empty |-> FALSE]
WrappedJsonText(j) == [wrap |-> TRUE, json |-> j, empty |-> FALSE]

\* the value `x in obj` and obj.x read
HasField(j, name) == j.t = "obj" /\ name \in DOMAIN j.f

\* sanitizer.ts safeJsonExtract: JSON.parse(text), else the text between the
\* first "{" and the last "}", else null
safeJsonExtract(text) ==
    IF text.empty \/ text.json = NoJson THEN JNull
    ELSE IF ~text.wrap THEN text.json
    ELSE IF text.json.t = "obj" THEN text.json
    ELSE JNull

IsStringArray(j) == j.t = "arr" /\ \A i \in 1..Len(j.v) : j.v[i].t = "str"

NoImproverJson == [valid |-> FALSE]
\* sanitizer.ts validateImproverResponse: the fields kept, one flag per field
validateImproverResponse(parsed) ==
    IF parsed.t # "obj" THEN NoImproverJson
    ELSE IF ~HasField(parsed, "improved_user_prompt") /\ ~HasField(parsed, "search")
    THEN NoImproverJson
    ELSE LET hasPrompt == HasField(parsed, "improved_user_prompt")
                          /\ parsed.f["improved_user_prompt"].t = "str"
             hasSearch == HasField(parsed, "search") /\ parsed.f["search"].t = "obj"
             search == IF hasSearch THEN parsed.f["search"] ELSE JObj(<<>>)
             hasKeywords == HasField(search, "keywords") /\ IsStringArray(search.f["keywords"])
             hasMax == HasField(search, "max_files") /\ search.f["max_files"].t = "num"
                       /\ search.f["max_files"].finite
         IN  [valid |-> TRUE,
              hasPrompt |-> hasPrompt,
              prompt |-> IF hasPrompt THEN parsed.f["improved_user_prompt"].v ELSE <<>>,
              hasKeywords |-> hasKeywords,
              keywords |-> IF hasKeywords
                           THEN [i \in 1..Len(search.f["keywords"].v) |->
                                    search.f["keywords"].v[i].v]
                           ELSE <<>>,
              hasMax |-> hasMax,
              maxFiles |-> IF hasMax THEN search.f["max_files"].v ELSE 0]

(***************************************************************************)
(* Prompt improver (prompt-improver.ts)                                    *)
(***************************************************************************)
StopWords ==
    {<<"t", "h", "e">>, <<"a", "n", "d">>, <<"f", "o", "r">>, <<"w", "i", "t", "h">>,
     <<"f", "r", "o", "m">>, <<"i", "n", "t", "o">>, <<"t", "h", "a", "t">>, <<"t", "h", "i", "s">>,
     <<"t", "h", "e", "s", "e">>, <<"t", "h", "o", "s", "e">>, <<"t", "h", "e", "n">>, <<"t", "h", "a", "n">>,
     <<"y", "o", "u", "r">>, <<"y", "o", "u">>, <<"o", "u", "r">>, <<"a", "r", "e">>,
     <<"w", "a", "s">>, <<"w", "e", "r", "e">>, <<"w", "i", "l", "l">>, <<"w", "o", "u", "l", "d">>,
     <<"s", "h", "o", "u", "l", "d">>, <<"c", "o", "u", "l", "d">>, <<"c", "a", "n">>, <<"c", "a", "n", "t">>,
     <<"a", "p", "p">>, <<"c", "o", "d", "e">>, <<"r", "e", "p", "o">>, <<"p", "r", "o", "j", "e", "c", "t">>,
     <<"f", "i", "l", "e">>, <<"f", "i", "l", "e", "s">>, <<"p", "l", "e", "a", "s", "e">>, <<"m", "a", "k", "e">>,
     <<"a", "d", "d">>, <<"r", "e", "m", "o", "v", "e">>, <<"u", "p", "d", "a", "t", "e">>, <<"a", "b", "l", "e">>,
     <<"u", "s", "i", "n", "g">>, <<"u", "s", "e">>, <<"u", "s", "e", "d">>, <<"r", "u", "n">>,
     <<"r", "u", "n", "s">>}

TokenChars ==
    {LowerChars[i] : i \in 1..26} \cup DigitChars \cup {"_", ".", "/", "-"}

WhiteSpace == {" ", "\n", "\t"}

RECURSIVE TrimStart(_)
TrimStart(s) == IF s # <<>> /\ Head(s) \in WhiteSpace THEN TrimStart(Tail(s)) ELSE s

RECURSIVE TrimEnd(_)
TrimEnd(s) ==
    IF s # <<>> /\ s[Len(s)] \in WhiteSpace THEN TrimEnd(SubSeq(s, 1, Len(s) - 1)) ELSE s

\* s.trim()
Trim(s) == TrimEnd(TrimStart(s))

\* s.split(/[^a-z0-9_./-]+/g).filter(Boolean): cur is the token being read
RECURSIVE SplitTokens(_, _)
SplitTokens(s, cur) ==
    IF s = <<>> THEN (IF cur = <<>> THEN <<>> ELSE <<cur>>)
    ELSE IF Head(s) \in TokenChars
         THEN SplitTokens(Tail(s), Append(cur, Head(s)))
         ELSE (IF cur = <<>> THEN <<>> ELSE <<cur>>) \o SplitTokens(Tail(s), <<>>)

\* Array.from(new Set(tokens)): the first occurrence of each token, in order
RECURSIVE Dedupe(_, _)
Dedupe(tokens, seen) ==
    IF tokens = <<>> THEN <<>>
    ELSE IF Head(tokens) \in seen THEN Dedupe(Tail(tokens), seen)
         ELSE <<Head(tokens)>> \o Dedupe(Tail(tokens), seen \cup {Head(tokens)})

\* extractKeywordsFallback(goal)
extractKeywordsFallback(goal) ==
    LET tokens == SelectSeq(SplitTokens(ToLowerCase(goal), <<>>),
                            LAMBDA t : Len(t) >= 3 /\ t \notin StopWords)
        unique == Dedupe(tokens, {})
    IN  SubSeq(unique, 1, Min(Len(unique), 12))

\* improvePrompt, after its provider call returned improverRaw
improvePromptOutput(improverRaw, userMessage) ==
    LET improverJson == validateImproverResponse(safeJsonExtract(improverRaw))
    IN  [improvedUserPrompt |->
             IF improverJson.valid /\ improverJson.hasPrompt
             THEN improverJson.prompt ELSE Trim(userMessage),
         keywords |->
             IF improverJson.valid /\ improverJson.hasKeywords /\ Len(improverJson.keywords) > 0
             THEN SubSeq(improverJson.keywords, 1, Min(Len(improverJson.keywords), 20))
             ELSE extractKeywordsFallback(userMessage),
         maxFiles |->
             IF improverJson.valid /\ improverJson.hasMax
             THEN Min(Max(improverJson.maxFiles, 4), 25) ELSE 12]

(***************************************************************************)
(* Provider calls (providers.ts)                                           *)
(***************************************************************************)
Providers == {"openai", "anthropic", "google"}

callProviderNoEmptyCheck(provider, reply) ==
    IF reply.st = "ok" THEN [ok |-> TRUE, text |-> reply.text]
    ELSE [ok |-> FALSE, error |-> <<provider, reply.st>>]
\* callProvider, given how the HTTP exchange ended: the text returned, or the
\* error thrown (HTTP status, timeout, empty or missing completion)
callProvider(provider, reply) ==
    IF provider \notin Providers THEN [ok |-> FALSE, error |-> <<provider, "unsupported">>]
    ELSE IF reply.st # "ok" THEN [ok |-> FALSE, error |-> <<provider, reply.st>>]
    ELSE IF reply.text.empty THEN [ok |-> FALSE, error |-> <<provider, "empty">>]
    ELSE [ok |-> TRUE, text |-> reply.text]

\* improvePrompt without its fallbacks: a reply that does not validate is an error
improvePromptFatalOnMalformed(provider, reply, userMessage) ==
    LET r == callProvider(provider, reply)
    IN  IF ~r.ok THEN [ok |-> FALSE, error |-> r.error]
        ELSE IF ~validateImproverResponse(safeJsonExtract(r.text)).valid
        THEN [ok |-> FALSE, error |-> <<provider, "malformed">>]
        ELSE [ok |-> TRUE, value |-> improvePromptOutput(r.text, userMessage)]
\* improvePrompt(systemPrompt, userMessage, provider, ...), given how its
\* provider call ended: the output returned, or the error that propagates
improvePrompt(provider, reply, userMessage) ==
    LET r == callProvider(provider, reply)
    IN  IF ~r.ok THEN [ok |-> FALSE, error |-> r.error]
        ELSE [ok |-> TRUE, value |-> improvePromptOutput(r.text, userMessage)]

(***************************************************************************)
(* Request validation (request.ts)                                         *)
(***************************************************************************)
\* s.split("/")
RECURSIVE SplitSlash(_, _)
SplitSlash(s, cur) ==
    IF s = <<>> THEN <<cur>>
    ELSE IF Head(s) = "/" THEN <<cur>> \o SplitSlash(Tail(s), <<>>)
         ELSE SplitSlash(Tail(s), Append(cur, Head(s)))

\* const [owner, repoName] = repo.split("/"); !owner || !repoName
BadRepo(repo) ==
    LET parts == SplitSlash(repo, <<>>)
    IN  Len(parts) < 2 \/ parts[1] = <<>> \/ parts[2] = <<>>

\* models.filter((m) => !VALID_PROVIDERS.has(m))
InvalidProviders(models) == SelectSeq(models, LAMBDA m : m \notin Providers)

\* validatePipelineRequest(body): the request returned or the error thrown
validatePipelineRequest(body) ==
    IF body.repo = <<>> THEN [ok |-> FALSE, error |-> "Missing or invalid 'repo' field"]
    ELSE IF body.branch = <<>> THEN [ok |-> FALSE, error |-> "Missing or invalid 'branch' field"]
    ELSE IF body.systemPrompt = <<>>
    THEN [ok |-> FALSE, error |-> "Missing or invalid 'template.systemPrompt' field"]
    ELSE IF body.userMessage = <<>>
    THEN [ok |-> FALSE, error |-> "Missing or invalid 'userMessage' field"]
    ELSE IF Len(body.models) = 0 THEN [ok |-> FALSE, error |-> "Missing or invalid 'models' array"]
    ELSE IF Len(InvalidProviders(body.models)) > 0 THEN [ok |-> FALSE, error |-> "Invalid providers"]
    ELSE IF BadRepo(body.repo)
    THEN [ok |-> FALSE, error |-> "Invalid repo format, expected 'owner/name'"]
    ELSE [ok |-> TRUE,
          request |-> [repo |-> body.repo, branch |-> body.branch,
                       systemPrompt |-> body.systemPrompt,
                       userMessage |-> Trim(body.userMessage),
                       models |-> body.models,
                       pipeline |-> body.pipeline]]

(***************************************************************************)
(* Model catalog (model-catalog.ts)                                        *)
(***************************************************************************)
\* model ids are strings of characters; null and undefined are not strings
NULL == <<"null">>
UNDEFINED == <<"undefined">>

\* !modelId
Falsy(id) == id \in {NULL, UNDEFINED, <<>>}

OPENAI_CHAT_MODELS ==
    {<<"g", "p", "t", "-", "5", ".", "2", "-", "c", "h", "a", "t", "-", "l", "a", "t", "e", "s", "t">>,
     <<"g", "p", "t", "-", "5", ".", "2", "-", "p", "r", "o">>,
     <<"g", "p", "t", "-", "5", ".", "2", "-", "p", "r", "o", "-", "2", "0", "2", "5", "-", "1", "2", "-", "1", "1">>,
     <<"g", "p", "t", "-", "5", ".", "1", "-", "c", "h", "a", "t", "-", "l", "a", "t", "e", "s", "t">>,
     <<"g", "p", "t", "-", "5", "-", "c", "h", "a", "t", "-", "l", "a", "t", "e", "s", "t">>,
     <<"g", "p", "t", "-", "5", "-", "p", "r", "o">>,
     <<"g", "p", "t", "-", "5", "-", "p", "r", "o", "-", "2", "0", "2", "5", "-", "1", "0", "-", "0", "6">>,
     <<"g", "p", "t", "-", "5", "-", "m", "i", "n", "i">>,
     <<"g", "p", "t", "-", "5", "-", "m", "i", "n", "i", "-", "2", "0", "2", "5", "-", "0", "8", "-", "0", "7">>}
ANTHROPIC_MODELS ==
    {<<"c", "l", "a", "u", "d", "e", "-", "o", "p", "u", "s", "-", "4", "-", "5">>,
     <<"c", "l", "a", "u", "d", "e", "-", "s", "o", "n", "n", "e", "t", "-", "4", "-", "5">>,
     <<"c", "l", "a", "u", "d", "e", "-", "h", "a", "i", "k", "u", "-", "4", "-", "5">>}

DEFAULT_OPENAI_MODEL == <<"g", "p", "t", "-", "4">>
DEFAULT_ANTHROPIC_MODEL == <<"c", "l", "a", "u", "d", "e", "-", "s", "o", "n", "n", "e", "t", "-", "4", "-", "5">>
DEFAULT_GOOGLE_MODEL == <<"g", "e", "m", "i", "n", "i", "-", "2", ".", "5", "-", "p", "r", "o">>

getDefaultModel(provider) ==
    CASE provider = "openai" -> DEFAULT_OPENAI_MODEL
      [] provider = "anthropic" -> DEFAULT_ANTHROPIC_MODEL
      [] provider = "google" -> DEFAULT_GOOGLE_MODEL
      [] OTHER -> UNDEFINED

\* the prefixes of the completion models validateModelId turns away
CompletionModelPrefixes ==
    {<<"t", "e", "x", "t", "-", "d", "a", "v", "i", "n", "c", "i">>,
     <<"t", "e", "x", "t", "-", "c", "u", "r", "i", "e">>,
     <<"t", "e", "x", "t", "-", "b", "a", "b", "b", "a", "g", "e">>,
     <<"t", "e", "x", "t", "-", "a", "d", "a">>,
     <<"d", "a", "v", "i", "n", "c", "i">>,
     <<"c", "u", "r", "i", "e">>,
     <<"b", "a", "b", "b", "a", "g", "e">>,
     <<"a", "d", "a">>}

\* lib/model-catalog.ts validateModelId(provider, modelId)
validateModelId(provider, modelId) ==
    IF Falsy(modelId) THEN getDefaultModel(provider)
    ELSE CASE provider = "openai" ->
                 IF modelId \in OPENAI_CHAT_MODELS THEN modelId
                 ELSE IF \E prefix \in CompletionModelPrefixes : StartsWith(modelId, prefix)
                 THEN getDefaultModel(provider)
                 ELSE IF StartsWith(modelId, <<"g", "p", "t", "-">>) \/ StartsWith(modelId, <<"o", "1", "-">>)
                 THEN modelId
                 ELSE getDefaultModel(provider)
           [] provider = "anthropic" ->
                 IF modelId \in ANTHROPIC_MODELS THEN modelId ELSE getDefaultModel(provider)
           [] provider = "google" -> modelId
           [] OTHER -> getDefaultModel(provider)

\* the other copy of the catalog (same allowlists, another openai default)
Part004_getDefaultModel(provider) ==
    CASE provider = "openai" -> <<"g", "p", "t", "-", "5", ".", "2", "-", "c", "h", "a", "t", "-", "l", "a", "t", "e", "s", "t">>
      [] provider = "anthropic" -> DEFAULT_ANTHROPIC_MODEL
      [] provider = "google" -> DEFAULT_GOOGLE_MODEL
      [] OTHER -> UNDEFINED

Part004_validateModelId(provider, modelId) ==
    IF Falsy(modelId) THEN Part004_getDefaultModel(provider)
    ELSE CASE provider = "openai" ->
                 IF modelId \in OPENAI_CHAT_MODELS THEN modelId
                 ELSE Part004_getDefaultModel(provider)
           [] provider = "anthropic" ->
                 IF modelId \in ANTHROPIC_MODELS THEN modelId
                 ELSE Part004_getDefaultModel(provider)
           [] provider = "google" -> modelId
           [] OTHER -> Part004_getDefaultModel(provider)

\* resolveModelForProvider(provider, selectedModels, override): override ?? selected
resolveModelForProvider(provider, selectedModels, override) ==
    validateModelId(provider,
                    IF override \notin {NULL, UNDEFINED} THEN override
                    ELSE selectedModels[provider])

(***************************************************************************)
(* Scope parser (scope-parser.ts)                                          *)
(***************************************************************************)
\* JavaScript numbers as they occur here: an integer, +Infinity or NaN
Num(v) == [nan |-> FALSE, finite |-> TRUE, v |-> v]
PlusInfinity == [nan |-> FALSE, finite |-> FALSE, v |-> 0]
NaN == [nan |-> TRUE, finite |-> FALSE, v |-> 0]

RECURSIVE DecimalValue(_)
DecimalValue(s) ==
    IF s = <<>> THEN 0
    ELSE 10 * DecimalValue(SubSeq(s, 1, Len(s) - 1))
         + (CHOOSE d \in 0..9 : <<"0", "1", "2", "3", "4", "5", "6", "7", "8", "9">>[d + 1] = s[Len(s)])

\* the longest prefix of s made of decimal digits
RECURSIVE LeadingDigits(_)
LeadingDigits(s) ==
    IF s # <<>> /\ Head(s) \in DigitChars THEN <<Head(s)>> \o LeadingDigits(Tail(s)) ELSE <<>>

\* parseInt(s, 10): leading white space is skipped, a sign is read, then the
\* digits up to the first other character; NaN when there is no digit
parseInt(s) ==
    LET t == TrimStart(s)
        signed == t # <<>> /\ Head(t) \in {"+", "-"}
        digits == LeadingDigits(IF signed THEN Tail(t) ELSE t)
    IN  IF digits = <<>> THEN NaN
        ELSE IF signed /\ Head(t) = "-" THEN Num(0 - DecimalValue(digits))
        ELSE Num(DecimalValue(digits))

\* the decimal digits of a natural number, without leading zeros
RECURSIVE NatToString(_)
NatToString(n) ==
    LET d == <<"0", "1", "2", "3", "4", "5", "6", "7", "8", "9">>[(n % 10) + 1]
    IN  IF n < 10 THEN <<d>> ELSE Append(NatToString(n \div 10), d)

\* num.toString() of an integer
NumberToString(n) == IF n < 0 THEN <<"-">> \o NatToString(0 - n) ELSE NatToString(n)

\* isCommitCount without the comparison of num.toString() with the scope
isCommitCountNoRoundTrip(scope) ==
    LET num == parseInt(scope)
    IN  ~num.nan /\ num.v > 0
\* isCommitCount(scope)
isCommitCount(scope) ==
    LET num == parseInt(scope)
    IN  ~num.nan /\ num.v > 0 /\ NumberToString(num.v) = Trim(scope)

\* isGlobPattern
isGlobPattern(scope) ==
    Includes(scope, <<"*">>) \/ Includes(scope, <<"?">>) \/ Includes(scope, <<"[">>)

\* isFilePath: a "/" and a file extension of the list, or a "." in the last
\* segment (which every extension of the list implies)
isFilePath(scope) ==
    Includes(scope, <<"/">>) /\ Includes(LastSegment(scope), <<".">>)

\* parseScope(scope)
parseScope(scope) ==
    LET trimmed == IF scope \in {NULL, UNDEFINED} THEN <<>> ELSE Trim(scope)
    IN  IF trimmed = <<>> THEN [type |-> "empty", value |-> <<>>, commitCount |-> 0]
        ELSE IF isCommitCount(trimmed)
        THEN [type |-> "commits", value |-> trimmed, commitCount |-> parseInt(trimmed).v]
        ELSE IF isGlobPattern(trimmed) THEN [type |-> "glob", value |-> trimmed, commitCount |-> 0]
        ELSE IF isFilePath(trimmed) THEN [type |-> "file", value |-> trimmed, commitCount |-> 0]
        ELSE IF Includes(trimmed, <<"/">>)
        THEN [type |-> "file", value |-> trimmed, commitCount |-> 0]
        ELSE [type |-> "invalid", value |-> trimmed, commitCount |-> 0]

\* globToRegex: the regular expression as a list of tokens; "**" becomes ".*",
\* "*" becomes "[^/]*", "?" becomes "[^/]", every other character is literal
RECURSIVE globToRegex(_)
globToRegex(glob) ==
    IF glob = <<>> THEN <<>>
    ELSE IF Len(glob) >= 2 /\ glob[1] = "*" /\ glob[2] = "*"
         THEN <<[re |-> "any"]>> \o globToRegex(SubSeq(glob, 3, Len(glob)))
    ELSE IF glob[1] = "*" THEN <<[re |-> "seg"]>> \o globToRegex(Tail(glob))
    ELSE IF glob[1] = "?" THEN <<[re |-> "one"]>> \o globToRegex(Tail(glob))
    ELSE <<[re |-> "lit", c |-> glob[1]]>> \o globToRegex(Tail(glob))

\* the tokens match a prefix of path[pos..]: the expression has no end anchor
RECURSIVE RegexMatchAt(_, _, _)
RegexMatchAt(tokens, path, pos) ==
    IF tokens = <<>> THEN TRUE
    ELSE LET tk == Head(tokens)
         IN  CASE tk.re = "lit" ->
                      pos <= Len(path) /\ path[pos] = tk.c
                      /\ RegexMatchAt(Tail(tokens), path, pos + 1)
               [] tk.re = "one" ->
                      pos <= Len(path) /\ path[pos] # "/"
                      /\ RegexMatchAt(Tail(tokens), path, pos + 1)
               [] tk.re = "seg" ->
                      \E k \in 0..(Len(path) - pos + 1) :
                          /\ \A m \in pos..(pos + k - 1) : path[m] # "/"
                          /\ RegexMatchAt(Tail(tokens), path, pos + k)
               [] tk.re = "any" ->
                      \E k \in 0..(Len(path) - pos + 1) :
                          RegexMatchAt(Tail(tokens), path, pos + k)

\* matchesGlob(filePath, glob): anchored at the start unless the expression
\* begins with ".*"
matchesGlob(filePath, glob) ==
    LET tokens == globToRegex(glob)
    IN  IF tokens # <<>> /\ Head(tokens).re = "any"
        THEN \E pos \in 1..(Len(filePath) + 1) : RegexMatchAt(tokens, filePath, pos)
        ELSE RegexMatchAt(tokens, filePath, 1)

(***************************************************************************)
(* Agent-review route (api/agents/run)                                     *)
(***************************************************************************)
DEFAULT_AGENT_CONFIG ==
    [enabledAgents |-> <<"bug-detector", "security-auditor", "performance-optimizer",
                         "refactoring-architect">>,
     includeConfidence |-> FALSE]

NoAgentConfig == [absent |-> TRUE]

\* config = agentConfig || DEFAULT_AGENT_CONFIG
AgentConfigOf(body) ==
    IF body.agentConfig = NoAgentConfig THEN DEFAULT_AGENT_CONFIG ELSE body.agentConfig

\* enabledAgents: the configured list, or the default list when it is empty
EnabledAgentsOf(body) ==
    IF Len(AgentConfigOf(body).enabledAgents) > 0
    THEN AgentConfigOf(body).enabledAgents
    ELSE DEFAULT_AGENT_CONFIG.enabledAgents

\* models[index % models.length], index counted from 0
RoundRobinFirst(models, index) == models[1]
RoundRobin(models, index) == models[(index % Len(models)) + 1]

\* for (const file of commitData.files) if (filename && status !== "removed") fileSet.add
RECURSIVE AddCommitFiles(_, _)
AddCommitFiles(fileSeq, files) ==
    IF files = <<>> THEN fileSeq
    ELSE AddCommitFiles(
             IF Head(files).status # "removed"
                /\ ~\E k \in 1..Len(fileSeq) : fileSeq[k] = Head(files).filename
             THEN Append(fileSeq, Head(files).filename) ELSE fileSeq,
             Tail(files))

\* the union that gives up at the first commit whose detail fetch failed
RECURSIVE AddBatchFilesStopAtFailure(_, _)
AddBatchFilesStopAtFailure(fileSeq, batch) ==
    IF batch = <<>> \/ Head(batch).st # "ok" THEN fileSeq
    ELSE AddBatchFilesStopAtFailure(AddCommitFiles(fileSeq, Head(batch).files), Tail(batch))
RECURSIVE AddBatchFiles(_, _)
AddBatchFiles(fileSeq, batch) ==
    IF batch = <<>> THEN fileSeq
    ELSE AddBatchFiles(IF Head(batch).st = "ok" THEN AddCommitFiles(fileSeq, Head(batch).files)
                       ELSE fileSeq,
                       Tail(batch))

\* j[name]: undefined when j is not an object or has no such field
Field(j, name) == IF HasField(j, name) THEN j.f[name] ELSE NoJson

\* the value is truthy (undefined, null, false, 0 and "" are not)
Truthy(j) ==
    /\ j.t \notin {"none", "null"}
    /\ ~(j.t = "bool" /\ ~j.v)
    /\ ~(j.t = "str" /\ j.v = <<>>)
    /\ ~(j.t = "num" /\ j.finite /\ j.v = 0)

\* Number(s) of a string: "" is 0, an optional "-" and digits is that integer,
\* anything else is NaN
StringToNumber(s) ==
    IF s = <<>> THEN Num(0)
    ELSE IF \A i \in 1..Len(s) : s[i] \in DigitChars THEN Num(DecimalValue(s))
    ELSE IF Len(s) > 1 /\ s[1] = "-" /\ \A i \in 2..Len(s) : s[i] \in DigitChars
    THEN Num(0 - DecimalValue(Tail(s)))
    ELSE NaN

\* the number Math.min and Math.max make of an argument
RECURSIVE ToNumber(_)
ToNumber(j) ==
    CASE j.t = "num" -> IF j.finite THEN Num(j.v) ELSE PlusInfinity
      [] j.t = "null" -> Num(0)
      [] j.t = "bool" -> Num(IF j.v THEN 1 ELSE 0)
      [] j.t = "str" -> StringToNumber(j.v)
      [] j.t = "arr" -> IF Len(j.v) = 0 THEN Num(0)
                        ELSE IF Len(j.v) = 1 /\ j.v[1].t \in {"num", "str", "null"}
                        THEN ToNumber(j.v[1])
                        ELSE NaN
      [] OTHER -> NaN

ClampConfidenceNoUpper(j) ==
    LET x == ToNumber(IF Truthy(j) THEN j ELSE JNum(0))
    IN  IF x.nan THEN NaN
        ELSE IF ~x.finite THEN PlusInfinity
        ELSE Num(Max(0, x.v))
\* Math.max(0, Math.min(100, x || 0))
ClampConfidence(j) ==
    LET x == ToNumber(IF Truthy(j) THEN j ELSE JNum(0))
    IN  IF x.nan THEN NaN
        ELSE IF ~x.finite THEN Num(100)
        ELSE Num(Max(0, Min(100, x.v)))

NoConfidence == [present |-> FALSE]
\* lines 425-442: the confidence block read from the reply, or none
ConfidenceOf(text) ==
    IF text.json.t # "obj" THEN NoConfidence
    ELSE LET parsed == text.json
         IN  IF HasField(parsed, "score") /\ Truthy(Field(parsed, "recommendation"))
             THEN [present |-> TRUE,
                   score |-> ClampConfidence(parsed.f["score"]),
                   understanding |-> ClampConfidence(Field(Field(parsed, "breakdown"), "understanding")),
                   solution |-> ClampConfidence(Field(Field(parsed, "breakdown"), "solution")),
                   sideEffects |-> ClampConfidence(Field(Field(parsed, "breakdown"), "sideEffects")),
                   recommendation |->
                       IF Field(parsed, "recommendation") \in {JStr(<<"p", "r", "o", "c", "e", "e", "d">>), JStr(<<"a", "s", "k">>), JStr(<<"s", "t", "o", "p">>)}
                       THEN Field(parsed, "recommendation").v ELSE <<"a", "s", "k">>]
             ELSE NoConfidence

(***************************************************************************)
(* What the environment can send and answer                                *)
(***************************************************************************)
DefaultPipeline ==
    [promptImprover |-> [provider |-> "openai"], consolidator |-> [provider |-> "anthropic"]]

GoodBody(models) ==
    [repo |-> <<"o", "/", "r">>, branch |-> <<"m", "a", "i", "n">>, systemPrompt |-> <<"s", "y", "s">>,
     userMessage |-> <<" ", "F", "i", "x", " ", "t", "h", "e", " ", "M", "o", "d", "a", "l", " ">>, models |-> models, pipeline |-> DefaultPipeline]

ModelLists == {<<"anthropic">>, <<"google", "openai">>}

StreamBodies ==
    {GoodBody(models) : models \in ModelLists}
    \cup {[GoodBody(<<"openai">>) EXCEPT !.repo = <<"o", "/">>],
          GoodBody(<<"openai", "mistral">>)}

StreamInputs == [authed : BOOLEAN, key : {"alice"}, body : StreamBodies]

HttpFailures == {[st |-> "http_error"], [st |-> "timeout"]}

ImproverFull ==
    JsonText(JObj([improved_user_prompt |-> JStr(<<"b", "e", "t", "t", "e", "r">>),
                   search |-> JObj([keywords |-> JArr(<<JStr(<<"a", "u", "t", "h">>), JStr(<<"m", "o", "d", "a", "l">>)>>),
                                    max_files |-> JNum(2)])]))
ImproverNoMatch ==
    WrappedJsonText(JObj([search |-> JObj([keywords |-> JArr(<<JStr(<<"z", "z", "z">>)>>)])]))

ImproverReplies ==
    HttpFailures \cup {[st |-> "ok", text |-> t] :
                          t \in {EmptyText, ImproverFull, ImproverNoMatch, Prose("sorry")}}

TreeSmall ==
    <<[path |-> <<"l", "i", "b", "/", "M", "o", "d", "a", "l", ".", "t", "s", "x">>, type |-> "blob"],
      [path |-> <<"l", "i", "b">>, type |-> "tree"],
      [path |-> <<"n", "o", "d", "e", "_", "m", "o", "d", "u", "l", "e", "s", "/", "m", "o", "d", "a", "l", ".", "j", "s">>, type |-> "blob"],
      [path |-> <<"a", "p", "i", "/", "a", "u", "t", "h", ".", "t", "s">>, type |-> "blob"]>>

TreeReplies == {[st |-> "error"], [st |-> "ok", tree |-> <<>>], [st |-> "ok", tree |-> TreeSmall]}

ModelReplies(provider) ==
    HttpFailures \cup {[st |-> "ok", text |-> t] : t \in {EmptyText, Prose(provider)}}

AllModelReplies == UNION {ModelReplies(p) : p \in Providers}

ConsolidatorReplies ==
    {[st |-> "http_error"]} \cup {[st |-> "ok", text |-> t] : t \in {EmptyText, Prose("plan")}}

(***************************************************************************)
(* Streaming entry point (api/pipeline/stream route) and executePipeline   *)
(***************************************************************************)
ProgressFrame(stage) == [t |-> "frame", type |-> "progress", stage |-> stage]
ErrorFrame(error) == [t |-> "frame", type |-> "error", error |-> error]
ResultFrame(data) == [t |-> "frame", type |-> "result", data |-> data]
CloseEvent == [t |-> "close"]
CallEvent(kind, to) == [t |-> "call", kind |-> kind, to |-> to]
FileCalls(paths) == [i \in 1..Len(paths) |-> CallEvent("file", paths[i])]

Unset == [st |-> "unset"]

PromiseAllStoreByCompletion(values, i, v) ==
    LET free == {k \in 1..Len(values) : values[k] = Unset}
    IN  [values EXCEPT ![CHOOSE k \in free : \A m \in free : k <= m] = v]
\* Promise.all: the value of the promise at input position i goes to values[i]
PromiseAllStore(values, i, v) == [values EXCEPT ![i] = v]

PromiseAllSettledOutcome(slots) ==
    IF \A i \in 1..Len(slots) : slots[i].st # "pending" THEN "fulfilled" ELSE "pending"
\* Promise.all: rejected as soon as one input promise rejects, fulfilled once
\* every input promise has fulfilled
PromiseAllOutcome(slots) ==
    IF \E i \in 1..Len(slots) : slots[i].st = "rejected" THEN "rejected"
    ELSE IF \A i \in 1..Len(slots) : slots[i].st = "fulfilled" THEN "fulfilled"
    ELSE "pending"

\* the slot of a settled call, and the values array after it
SettleSlot(slots, i, r) ==
    [slots EXCEPT ![i] = IF r.ok THEN [st |-> "fulfilled", output |-> r.text]
                         ELSE [st |-> "rejected", error |-> r.error]]

\* a warning only for a ranking that found nothing
PipelineWarningRankedOnly(rankedPaths, files) ==
    IF Len(rankedPaths) = 0
    THEN "No relevant files found. Running with prompt-only context."
    ELSE "undefined"
\* executePipeline lines 179-198: the warning of a degraded run
PipelineWarning(rankedPaths, files) ==
    IF Len(rankedPaths) = 0
    THEN "No relevant files found. Running with prompt-only context."
    ELSE IF Len(files) = 0
    THEN "Could not load any files. Running with prompt-only context."
    ELSE "undefined"

\* runModels: every provider call of the fan-out starts, in input order
ModelCalls(models, files) ==
    [i \in 1..Len(models) |-> [t |-> "call", kind |-> "model", to |-> models[i], files |-> files]]

StreamFailNoClose(error) ==
    /\ trace' = trace \o <<ErrorFrame(error)>>
    /\ pc' = "done"
StreamFailGeneric(error) ==
    /\ trace' = trace \o <<ErrorFrame(<<"pipeline", "failed">>), CloseEvent>>
    /\ pc' = "done"
\* the catch of the stream's start(): sendError(err.message); controller.close()
StreamFail(error) ==
    /\ trace' = trace \o <<ErrorFrame(error), CloseEvent>>
    /\ pc' = "done"

EnterRunningCallsFirst(tr, files) ==
    /\ trace' = tr \o ModelCalls(req.request.models, files) \o <<ProgressFrame("running")>>
    /\ fan' = [i \in 1..Len(req.request.models) |-> Pending]
    /\ results' = [i \in 1..Len(req.request.models) |-> Unset]
    /\ pc' = "running"
\* stage 4 begins: progress "running", then runModels
EnterRunning(tr, files) ==
    /\ trace' = tr \o <<ProgressFrame("running")>> \o ModelCalls(req.request.models, files)
    /\ fan' = [i \in 1..Len(req.request.models) |-> Pending]
    /\ results' = [i \in 1..Len(req.request.models) |-> Unset]
    /\ pc' = "running"

\* a new request starts from fresh locals
ResetRequest ==
    /\ imp' = NoImprover /\ ranked' = <<>> /\ fan' = <<>> /\ results' = <<>> /\ cm' = NoCommits
    /\ ldMode' = "none" /\ ldPc' = "idle" /\ ldPaths' = <<>> /\ ldI' = 0 /\ ldBatch' = <<>>
    /\ ldFetched' = <<>> /\ ldTotal' = 0 /\ ldResults' = <<>>

\* the route with the admission check made after the stream was opened
StreamRequestWorkFirst(input) ==
    /\ pc = "idle"
    /\ ResetRequest
    /\ IF ~input.authed
       THEN /\ response' = [kind |-> "json", status |-> 401, error |-> "Unauthorized"]
            /\ req' = [entry |-> "stream", input |-> input]
            /\ rl' = "none" /\ trace' = <<>> /\ pc' = "done"
            /\ UNCHANGED rateVars
       ELSE /\ RateLimitCall(input.key)
            /\ IF ~CheckRateLimitAllowed(limits, input.key, now, RATE_MAX_REQUESTS, RATE_WINDOW_MS)
               THEN /\ response' = [kind |-> "json", status |-> 429,
                                    error |-> "Rate limit exceeded", retryAfter |-> 60]
                    /\ req' = [entry |-> "stream", input |-> input]
                    /\ rl' = "rejected" /\ trace' = <<ProgressFrame("improving")>>
                    /\ pc' = "done"
               ELSE LET v == validatePipelineRequest(input.body)
                    IN  /\ rl' = "allowed"
                        /\ IF ~v.ok
                           THEN /\ response' = [kind |-> "json", status |-> 400, error |-> v.error]
                                /\ req' = [entry |-> "stream", input |-> input]
                                /\ trace' = <<>> /\ pc' = "done"
                           ELSE /\ response' = [kind |-> "stream"]
                                /\ req' = [entry |-> "stream", input |-> input,
                                           request |-> v.request]
                                /\ trace' = <<ProgressFrame("improving"),
                                              CallEvent("improver",
                                                        v.request.pipeline.promptImprover.provider)>>
                                /\ pc' = "improving"
    /\ UNCHANGED fnVars
\* POST of the streaming route up to its first suspension on the network
StreamRequest(input) ==
    /\ pc = "idle"
    /\ ResetRequest
    /\ IF ~input.authed
       THEN /\ response' = [kind |-> "json", status |-> 401, error |-> "Unauthorized"]
            /\ req' = [entry |-> "stream", input |-> input]
            /\ rl' = "none" /\ trace' = <<>> /\ pc' = "done"
            /\ UNCHANGED rateVars
       ELSE /\ RateLimitCall(input.key)
            /\ IF ~CheckRateLimitAllowed(limits, input.key, now, RATE_MAX_REQUESTS, RATE_WINDOW_MS)
               THEN /\ response' = [kind |-> "json", status |-> 429,
                                    error |-> "Rate limit exceeded", retryAfter |-> 60]
                    /\ req' = [entry |-> "stream", input |-> input]
                    /\ rl' = "rejected" /\ trace' = <<>> /\ pc' = "done"
               ELSE LET v == validatePipelineRequest(input.body)
                    IN  /\ rl' = "allowed"
                        /\ IF ~v.ok
                           THEN /\ response' = [kind |-> "json", status |-> 400, error |-> v.error]
                                /\ req' = [entry |-> "stream", input |-> input]
                                /\ trace' = <<>> /\ pc' = "done"
                           ELSE /\ response' = [kind |-> "stream"]
                                /\ req' = [entry |-> "stream", input |-> input,
                                           request |-> v.request]
                                /\ trace' = <<ProgressFrame("improving"),
                                              CallEvent("improver",
                                                        v.request.pipeline.promptImprover.provider)>>
                                /\ pc' = "improving"
    /\ UNCHANGED fnVars

\* the improver's provider call settles
ImproverSettle(reply) ==
    /\ pc = "improving"
    /\ LET r == callProvider(req.request.pipeline.promptImprover.provider, reply)
       IN  IF ~r.ok
           THEN StreamFail(r.error) /\ UNCHANGED imp
           ELSE /\ imp' = improvePromptOutput(r.text, req.request.userMessage)
                /\ trace' = trace \o <<ProgressFrame("searching"), CallEvent("tree", "github")>>
                /\ pc' = "searching"
    /\ UNCHANGED <<req, rl, ranked, fan, results, cm, response>>
    /\ UNCHANGED rateVars
    /\ UNCHANGED loaderVars
    /\ UNCHANGED fnVars

\* fetchRepoTree settles; rankFiles; stage 3 begins
TreeSettle(reply) ==
    /\ pc = "searching"
    /\ IF reply.st # "ok"
       THEN /\ StreamFail(<<"github", "Failed to fetch repository tree">>)
            /\ UNCHANGED <<ranked, fan, results>>
            /\ UNCHANGED loaderVars
       ELSE LET rankedPaths == rankFiles(reply.tree, imp.keywords, imp.maxFiles)
                tr == Append(trace, ProgressFrame("loading"))
            IN  /\ ranked' = rankedPaths
                /\ IF Len(rankedPaths) = 0
                   THEN /\ EnterRunning(tr, <<>>)
                        /\ UNCHANGED loaderVars
                   ELSE /\ LoaderBegin("standard", rankedPaths)
                        /\ trace' = tr \o FileCalls(BatchOf(rankedPaths, 0, LOADER_CONCURRENCY))
                        /\ pc' = "loading"
                        /\ UNCHANGED <<fan, results>>
    /\ UNCHANGED <<req, rl, imp, cm, response>>
    /\ UNCHANGED rateVars
    /\ UNCHANGED fnVars

\* a file fetch of the pipeline's loader settles
PipelineFetchSettle(j, outcome) ==
    /\ pc = "loading"
    /\ FetchSettle(j, outcome)
    /\ UNCHANGED reqVars
    /\ UNCHANGED rateVars
    /\ UNCHANGED fnVars

\* a batch of the pipeline's loader completes: the next batch starts, or the
\* loader returns and stage 4 begins
PipelineBatchDone ==
    /\ pc = "loading"
    /\ StandardBatchDone
    /\ IF ldPc' = "done"
       THEN EnterRunning(trace, ldResults')
       ELSE /\ trace' = trace \o FileCalls(BatchOf(ldPaths, ldI', LOADER_CONCURRENCY))
            /\ UNCHANGED <<pc, fan, results>>
    /\ UNCHANGED <<req, rl, imp, ranked, cm, response>>
    /\ UNCHANGED rateVars
    /\ UNCHANGED fnVars

\* one provider call of runModels settles; Promise.all rejects on the first
\* failure and resolves when every call has fulfilled
ModelSettle(i, reply) ==
    /\ pc = "running"
    /\ i \in 1..Len(fan)
    /\ fan[i] = Pending
    /\ reply \in ModelReplies(req.request.models[i])
    /\ LET r == callProvider(req.request.models[i], reply)
           slots == SettleSlot(fan, i, r)
           outcome == PromiseAllOutcome(slots)
       IN  /\ fan' = slots
           /\ results' = IF r.ok
                         THEN PromiseAllStore(results, i,
                                  [model |-> req.request.models[i], output |-> r.text])
                         ELSE results
           /\ CASE outcome = "rejected" -> StreamFail(r.error)
                [] outcome = "fulfilled" ->
                       /\ trace' = trace \o
                              <<ProgressFrame("consolidating"),
                                CallEvent("consolidator",
                                          req.request.pipeline.consolidator.provider)>>
                       /\ pc' = "consolidating"
                [] OTHER -> UNCHANGED <<trace, pc>>
    /\ UNCHANGED <<req, rl, imp, ranked, cm, response>>
    /\ UNCHANGED rateVars
    /\ UNCHANGED loaderVars
    /\ UNCHANGED fnVars

\* the consolidator's provider call settles; on success the result frame closes the stream
ConsolidatorSettle(reply) ==
    /\ pc = "consolidating"
    /\ LET r == callProvider(req.request.pipeline.consolidator.provider, reply)
       IN  IF ~r.ok
           THEN StreamFail(r.error)
           ELSE /\ trace' = trace \o
                       <<ProgressFrame("complete"),
                         ResultFrame([results |-> results,
                                      consolidated |-> r.text,
                                      selectedFiles |-> [k \in 1..Len(ldResults) |-> ldResults[k].path],
                                      keywords |-> imp.keywords,
                                      warning |-> PipelineWarning(ranked, ldResults)]),
                         CloseEvent>>
                /\ pc' = "done"
    /\ UNCHANGED <<req, rl, imp, ranked, fan, results, cm, response>>
    /\ UNCHANGED rateVars
    /\ UNCHANGED loaderVars
    /\ UNCHANGED fnVars

\* a sibling call of a fan-out that already failed settles: nobody awaits it
LateSettle(i) ==
    /\ pc = "done"
    /\ i \in 1..Len(fan)
    /\ fan[i] = Pending
    /\ fan' = [fan EXCEPT ![i] = [st |-> "ignored"]]
    /\ UNCHANGED <<pc, req, rl, trace, imp, ranked, results, cm, response>>
    /\ UNCHANGED rateVars
    /\ UNCHANGED loaderVars
    /\ UNCHANGED fnVars

(***************************************************************************)
(* Agent-review entry point: POST of api/agents/run                        *)
(***************************************************************************)
AgentBody(scope, models, config) ==
    [repo |-> <<"o", "/", "r">>, branch |-> <<"m", "a", "i", "n">>, systemPrompt |-> <<"s", "y", "s">>,
     userMessage |-> <<" ", "F", "i", "x", " ", "t", "h", "e", " ", "M", "o", "d", "a", "l", " ">>, scope |-> scope, models |-> models,
     selectedModels |-> [openai |-> <<"g", "p", "t", "-", "5", "-", "m", "i", "n", "i">>,
                        anthropic |-> <<"c", "l", "a", "u", "d", "e", "-", "2">>, google |-> NULL],
     agentConfig |-> config]

AgentScopes == {<<>>, <<"2">>, <<"l", "i", "b", "/", "*", ".", "t", "s", "x">>, <<"l", "i", "b", "/", "M", "o", "d", "a", "l", ".", "t", "s", "x">>, <<"!", "!", "!">>}
AgentConfigs == {NoAgentConfig, [enabledAgents |-> <<"security-auditor">>, includeConfidence |-> TRUE]}

AgentBodies ==
    {AgentBody(scope, models, config) :
        scope \in AgentScopes, models \in ModelLists, config \in AgentConfigs}
    \cup {AgentBody(<<>>, <<"mistral">>, NoAgentConfig)}

AgentInputs == [authed : BOOLEAN, key : {"alice"}, body : AgentBodies]

CommitShas == <<"c1", "c2">>
CommitListReplies ==
    {[st |-> "error"]} \cup {[st |-> "ok", shas |-> SubSeq(CommitShas, 1, n)] : n \in 0..2}

CommitDetailReplies ==
    {[st |-> "error"],
     [st |-> "ok", files |-> <<[filename |-> <<"l", "i", "b", "/", "M", "o", "d", "a", "l", ".", "t", "s", "x">>, status |-> "modified"],
                               [filename |-> <<"a", "p", "i", "/", "a", "u", "t", "h", ".", "t", "s">>, status |-> "removed"]>>],
     [st |-> "ok", files |-> <<[filename |-> <<"l", "i", "b", "/", "M", "o", "d", "a", "l", ".", "t", "s", "x">>, status |-> "added"],
                               [filename |-> <<"a", "p", "i", "/", "a", "u", "t", "h", ".", "t", "s">>, status |-> "modified"]>>]}

SynthesisReplies ==
    {[st |-> "http_error"]} \cup {[st |-> "ok", text |-> t] : t \in {EmptyText, Prose("report")}}

ConfidenceFull ==
    WrappedJsonText(JObj([score |-> JNum(150),
                          breakdown |-> JObj([understanding |-> JNum(0 - 5), solution |-> JNum(50)]),
                          recommendation |-> JStr(<<"m", "a", "y", "b", "e">>)]))
ConfidenceNoRecommendation == JsonText(JObj([score |-> JNum(80)]))

ConfidenceNoScore == JsonText(JObj([recommendation |-> JStr(<<"a", "s", "k">>)]))

ConfidenceReplies ==
    {[st |-> "timeout"]} \cup {[st |-> "ok", text |-> t] :
                                  t \in {Prose("n/a"), ConfidenceFull, ConfidenceNoRecommendation,
                                         ConfidenceNoScore}}

JsonResponse(status, error) == [kind |-> "json", status |-> status, error |-> error]

\* the route answers with an error: NextResponse.json({error}, {status})
AgentReject(status, error) ==
    /\ response' = JsonResponse(status, error)
    /\ pc' = "done"

ScopeRejectedNever(scope) == FALSE
\* parsedScope.type === "invalid"
ScopeRejected(scope) == scope.type = "invalid"

NothingLoadedNever(files) == FALSE
\* files.length === 0
NothingLoaded(files) == Len(files) = 0

\* lines 264-288: no path is rejected, else the first 25 paths go to the loader
AgentLoad(tr, filePaths) ==
    /\ ranked' = filePaths
    /\ IF Len(filePaths) = 0
       THEN /\ AgentReject(400, "No files found for scope")
            /\ trace' = tr
            /\ UNCHANGED loaderVars
       ELSE LET paths == SubSeq(filePaths, 1, Min(Len(filePaths), MAX_LOADER_PATHS))
            IN  /\ LoaderBegin("agent", paths)
                /\ trace' = tr \o FileCalls(BatchOf(paths, 0, LOADER_CONCURRENCY))
                /\ pc' = "agent_loading"
                /\ UNCHANGED response

\* the body checks of lines 235-250
AgentBodyError(body) ==
    IF body.repo = <<>> \/ body.branch = <<>> \/ body.systemPrompt = <<>>
       \/ body.userMessage = <<>> \/ Len(body.models) = 0
    THEN "Invalid request"
    ELSE IF Len(InvalidProviders(body.models)) > 0 THEN "Invalid providers"
    ELSE IF BadRepo(body.repo) THEN "Invalid repo"
    ELSE "none"

\* POST of the agent route up to its first suspension on the network
AgentRequest(input) ==
    /\ pc = "idle"
    /\ imp' = NoImprover /\ fan' = <<>> /\ results' = <<>> /\ cm' = NoCommits
    /\ rl' = "none"
    /\ UNCHANGED rateVars
    /\ LET idle == /\ ldMode' = "none" /\ ldPc' = "idle" /\ ldPaths' = <<>> /\ ldI' = 0
                   /\ ldBatch' = <<>> /\ ldFetched' = <<>> /\ ldTotal' = 0 /\ ldResults' = <<>>
           scope == parseScope(input.body.scope)
       IN  IF ~input.authed
           THEN /\ AgentReject(401, "Unauthorized")
                /\ req' = [entry |-> "agent", input |-> input]
                /\ trace' = <<>> /\ ranked' = <<>> /\ idle
           ELSE IF AgentBodyError(input.body) # "none"
           THEN /\ AgentReject(400, AgentBodyError(input.body))
                /\ req' = [entry |-> "agent", input |-> input]
                /\ trace' = <<>> /\ ranked' = <<>> /\ idle
           ELSE /\ req' = [entry |-> "agent", input |-> input, scope |-> scope]
                /\ CASE ScopeRejected(scope) ->
                            /\ AgentReject(400, "Invalid scope")
                            /\ trace' = <<>> /\ ranked' = <<>> /\ idle
                     [] scope.type = "file" ->
                            /\ ldFetched' = <<>> /\ ldTotal' = 0 /\ ldResults' = <<>>
                            /\ AgentLoad(<<>>, <<scope.value>>)
                     [] scope.type = "glob" ->
                            /\ trace' = <<CallEvent("tree", "github")>>
                            /\ pc' = "agent_tree"
                            /\ response' = NoResponse /\ ranked' = <<>> /\ idle
                     [] scope.type \in {"commits", "empty"} ->
                            /\ trace' = <<CallEvent("commits",
                                              IF scope.type = "empty" THEN 1 ELSE scope.commitCount)>>
                            /\ pc' = "agent_commits"
                            /\ response' = NoResponse /\ ranked' = <<>> /\ idle
                     [] OTHER ->
                            /\ ldMode' = "none" /\ ldPc' = "idle" /\ ldPaths' = <<>>
                            /\ ldI' = 0 /\ ldBatch' = <<>>
                            /\ ldFetched' = <<>> /\ ldTotal' = 0 /\ ldResults' = <<>>
                            /\ AgentLoad(<<>>, <<>>)
    /\ UNCHANGED fnVars

\* resolveFilesFromScope, glob: the tree fetch settles
AgentTreeSettle(reply) ==
    /\ pc = "agent_tree"
    /\ IF reply.st # "ok"
       THEN /\ AgentReject(500, "GitHub error: Failed to fetch")
            /\ UNCHANGED <<trace, ranked>>
            /\ UNCHANGED loaderVars
       ELSE LET blobs == SelectSeq(reply.tree, LAMBDA t : t.type = "blob")
                paths == [i \in 1..Len(blobs) |-> blobs[i].path]
            IN  AgentLoad(trace, SelectSeq(paths, LAMBDA q : matchesGlob(q, req.scope.value)))
    /\ UNCHANGED <<req, rl, imp, fan, results, cm>>
    /\ UNCHANGED rateVars
    /\ UNCHANGED fnVars

\* fetchCommitFiles: the commit listing settles; the first batch of details starts
AgentCommitsSettle(reply) ==
    /\ pc = "agent_commits"
    /\ IF reply.st # "ok" \/ Len(reply.shas) = 0
       THEN /\ AgentLoad(trace, <<>>)
            /\ UNCHANGED cm
       ELSE LET batch == BatchOf(reply.shas, 0, COMMIT_BATCH_SIZE)
            IN  /\ cm' = [shas |-> reply.shas, i |-> 0,
                          batch |-> [j \in 1..Len(batch) |-> Pending], files |-> <<>>]
                /\ trace' = trace \o [j \in 1..Len(batch) |-> CallEvent("commit", batch[j])]
                /\ pc' = "agent_details"
                /\ UNCHANGED <<ranked, response>>
                /\ UNCHANGED loaderVars
    /\ UNCHANGED <<req, rl, imp, fan, results>>
    /\ UNCHANGED rateVars
    /\ UNCHANGED fnVars

\* one commit-detail fetch settles; its own catch turns a failure into null
CommitDetailSettle(j, reply) ==
    /\ pc = "agent_details"
    /\ j \in 1..Len(cm.batch)
    /\ cm.batch[j] = Pending
    /\ cm' = [cm EXCEPT !.batch[j] = IF reply.st = "ok" THEN reply ELSE Failed]
    /\ UNCHANGED <<pc, req, rl, trace, imp, ranked, fan, results, response>>
    /\ UNCHANGED rateVars
    /\ UNCHANGED loaderVars
    /\ UNCHANGED fnVars

\* a batch of commit details completes: the next batch starts, or the file set is returned
CommitBatchDone ==
    /\ pc = "agent_details"
    /\ AllSettled(cm.batch)
    /\ LET files == AddBatchFiles(cm.files, cm.batch)
           next == cm.i + COMMIT_BATCH_SIZE
           batch == BatchOf(cm.shas, next, COMMIT_BATCH_SIZE)
       IN  IF next < Len(cm.shas)
           THEN /\ cm' = [cm EXCEPT !.i = next, !.files = files,
                                    !.batch = [j \in 1..Len(batch) |-> Pending]]
                /\ trace' = trace \o [j \in 1..Len(batch) |-> CallEvent("commit", batch[j])]
                /\ UNCHANGED <<pc, ranked, response>>
                /\ UNCHANGED loaderVars
           ELSE /\ cm' = [cm EXCEPT !.files = files, !.batch = <<>>]
                /\ AgentLoad(trace, files)
    /\ UNCHANGED <<req, rl, imp, fan, results>>
    /\ UNCHANGED rateVars
    /\ UNCHANGED fnVars

\* a file fetch of the agent route's loader settles
AgentFetchSettle(j, outcome) ==
    /\ pc = "agent_loading"
    /\ FetchSettle(j, outcome)
    /\ UNCHANGED reqVars
    /\ UNCHANGED rateVars
    /\ UNCHANGED fnVars

\* the role calls of lines 322-342 start, in the order of enabledAgents
RoleCalls(body, files) ==
    [i \in 1..Len(EnabledAgentsOf(body)) |->
        [t |-> "call", kind |-> "role",
         to |-> RoundRobin(body.models, i - 1),
         agent |-> EnabledAgentsOf(body)[i],
         modelId |-> resolveModelForProvider(RoundRobin(body.models, i - 1),
                                             body.selectedModels, NULL),
         files |-> files]]

\* a batch of the agent loader completes: the next batch starts, or the budget
\* is applied and the role calls start
AgentLoaderBatchDone ==
    /\ pc = "agent_loading"
    /\ AgentBatchDone
    /\ IF ldPc' # "done"
       THEN /\ trace' = trace \o FileCalls(BatchOf(ldPaths, ldI', LOADER_CONCURRENCY))
            /\ UNCHANGED <<pc, fan, results, response>>
       ELSE IF NothingLoaded(ldResults')
       THEN /\ AgentReject(400, "Found file paths but could not load contents within caps.")
            /\ UNCHANGED <<trace, fan, results>>
       ELSE /\ trace' = trace \o RoleCalls(req.input.body, ldResults')
            /\ fan' = [i \in 1..Len(EnabledAgentsOf(req.input.body)) |-> Pending]
            /\ results' = [i \in 1..Len(EnabledAgentsOf(req.input.body)) |-> Unset]
            /\ pc' = "agent_roles"
            /\ UNCHANGED response
    /\ UNCHANGED <<req, rl, imp, ranked, cm>>
    /\ UNCHANGED rateVars
    /\ UNCHANGED fnVars

\* one role call settles; Promise.all rejects on the first failure (the route's
\* catch answers 500) and resolves when every call has fulfilled
RoleSettle(i, reply) ==
    /\ pc = "agent_roles"
    /\ i \in 1..Len(fan)
    /\ fan[i] = Pending
    /\ LET body == req.input.body
           provider == RoundRobin(body.models, i - 1)
           r == callProvider(provider, reply)
           slots == SettleSlot(fan, i, r)
           outcome == PromiseAllOutcome(slots)
       IN  /\ reply \in ModelReplies(provider)
           /\ fan' = slots
           /\ results' = IF r.ok
                         THEN PromiseAllStore(results, i,
                                  [agent |-> EnabledAgentsOf(body)[i],
                                   output |-> r.text,
                                   provider |-> provider,
                                   modelId |-> resolveModelForProvider(
                                                   provider, body.selectedModels, NULL)])
                         ELSE results
           /\ CASE outcome = "rejected" -> AgentReject(500, r.error) /\ UNCHANGED trace
                [] outcome = "fulfilled" ->
                       /\ trace' = Append(trace, CallEvent("synthesis", body.models[1]))
                       /\ pc' = "agent_synth"
                       /\ UNCHANGED response
                [] OTHER -> UNCHANGED <<trace, pc, response>>
    /\ UNCHANGED <<req, rl, imp, ranked, cm>>
    /\ UNCHANGED rateVars
    /\ UNCHANGED loaderVars
    /\ UNCHANGED fnVars

AgentOk(synthesized, confidence) ==
    [kind |-> "json", status |-> 200, results |-> results, synthesized |-> synthesized,
     selectedFiles |-> [k \in 1..Len(ldResults) |-> ldResults[k].path],
     agents |-> EnabledAgentsOf(req.input.body), confidence |-> confidence]

\* the synthesis call settles
SynthesisSettle(reply) ==
    /\ pc = "agent_synth"
    /\ LET r == callProvider(req.input.body.models[1], reply)
       IN  IF ~r.ok
           THEN AgentReject(500, r.error) /\ UNCHANGED trace
           ELSE IF AgentConfigOf(req.input.body).includeConfidence
           THEN /\ trace' = Append(trace, CallEvent("confidence", req.input.body.models[1]))
                /\ response' = [kind |-> "pending", synthesized |-> r.text]
                /\ pc' = "agent_conf"
           ELSE /\ response' = AgentOk(r.text, NoConfidence)
                /\ pc' = "done"
                /\ UNCHANGED trace
    /\ UNCHANGED <<req, rl, imp, ranked, fan, results, cm>>
    /\ UNCHANGED rateVars
    /\ UNCHANGED loaderVars
    /\ UNCHANGED fnVars

\* the confidence evaluation without its try/catch and its field test
ConfidenceSettleFatal(reply) ==
    /\ pc = "agent_conf"
    /\ LET r == callProvider(req.input.body.models[1], reply)
       IN  IF r.ok /\ ConfidenceOf(r.text).present
           THEN response' = AgentOk(response.synthesized, ConfidenceOf(r.text))
           ELSE response' = JsonResponse(500, <<"confidence">>)
    /\ pc' = "done"
    /\ UNCHANGED <<req, rl, trace, imp, ranked, fan, results, cm>>
    /\ UNCHANGED rateVars
    /\ UNCHANGED loaderVars
    /\ UNCHANGED fnVars

\* the confidence call settles; its try/catch swallows every failure
ConfidenceSettle(reply) ==
    /\ pc = "agent_conf"
    /\ LET r == callProvider(req.input.body.models[1], reply)
       IN  response' = AgentOk(response.synthesized,
                               IF r.ok THEN ConfidenceOf(r.text) ELSE NoConfidence)
    /\ pc' = "done"
    /\ UNCHANGED <<req, rl, trace, imp, ranked, fan, results, cm>>
    /\ UNCHANGED rateVars
    /\ UNCHANGED loaderVars
    /\ UNCHANGED fnVars

\* the response has been handed to the client and the request's locals are
\* dropped; only the limiter's map outlives a request
Deliver ==
    /\ pc = "done"
    /\ pc' = "idle" /\ req' = NoRequest /\ rl' = "none" /\ trace' = <<>>
    /\ response' = NoResponse
    /\ ResetRequest
    /\ UNCHANGED rateVars
    /\ UNCHANGED fnVars

Init == RateIdle /\ LoaderIdle /\ RequestIdle /\ FnIdle

Next ==
    \/ \E input \in StreamInputs : StreamRequest(input)
    \/ \E reply \in ImproverReplies : ImproverSettle(reply)
    \/ \E reply \in TreeReplies : TreeSettle(reply)
    \/ \E j \in 1..LOADER_CONCURRENCY, outcome \in FetchOutcomes : PipelineFetchSettle(j, outcome)
    \/ PipelineBatchDone
    \/ \E i \in 1..MAX_FAN, reply \in AllModelReplies : ModelSettle(i, reply)
    \/ \E reply \in ConsolidatorReplies : ConsolidatorSettle(reply)
    \/ \E i \in 1..MAX_FAN : LateSettle(i)
    \/ \E input \in AgentInputs : AgentRequest(input)
    \/ \E reply \in TreeReplies : AgentTreeSettle(reply)
    \/ \E reply \in CommitListReplies : AgentCommitsSettle(reply)
    \/ \E j \in 1..COMMIT_BATCH_SIZE, reply \in CommitDetailReplies : CommitDetailSettle(j, reply)
    \/ CommitBatchDone
    \/ \E j \in 1..LOADER_CONCURRENCY, outcome \in FetchOutcomes : AgentFetchSettle(j, outcome)
    \/ AgentLoaderBatchDone
    \/ \E i \in 1..MAX_FAN, reply \in AllModelReplies : RoleSettle(i, reply)
    \/ \E reply \in SynthesisReplies : SynthesisSettle(reply)
    \/ \E reply \in ConfidenceReplies : ConfidenceSettle(reply)
    \/ Deliver

Spec == Init /\ [][Next]_vars

(***************************************************************************)
(* Properties of the two entry points                                      *)
(***************************************************************************)
IsCall(e, kinds) == e.t = "call" /\ e.kind \in kinds
IsFrame(e, types) == e.t = "frame" /\ e.type \in types
CallsOf(kinds) == {k \in 1..Len(trace) : IsCall(trace[k], kinds)}
FramesOf(types) == {k \in 1..Len(trace) : IsFrame(trace[k], types)}
AllCallKinds ==
    {"improver", "tree", "file", "model", "consolidator",
     "commits", "commit", "role", "synthesis", "confidence"}
StreamOpened == req.entry = "stream" /\ response.kind = "stream"

\* the stages whose progress frames were sent, in the order sent
StagesEntered ==
    LET frames == SelectSeq(trace, LAMBDA e : IsFrame(e, {"progress"}))
    IN  [k \in 1..Len(frames) |-> frames[k].stage]

StageOrder == <<"improving", "searching", "loading", "running", "consolidating", "complete">>

StageOfCall(kind) ==
    CASE kind = "improver" -> "improving"
      [] kind = "tree" -> "searching"
      [] kind = "file" -> "loading"
      [] kind = "model" -> "running"
      [] kind = "consolidator" -> "consolidating"

\* the stage of the last progress frame before position k of the trace
StageAt(k) ==
    LET before == {m \in 1..(k - 1) : IsFrame(trace[m], {"progress"})}
    IN  IF before = {} THEN "none"
        ELSE trace[CHOOSE m \in before : \A n \in before : n <= m].stage

\* C21: a request the admission check rejects is answered 429 with a
\* retry-after value and causes no partial work: no validation result is
\* kept, no stage is entered, no frame is emitted and no outbound call is made.
C21_RejectionDoesNoWork ==
    rl = "rejected" =>
        /\ response.kind = "json" /\ response.status = 429 /\ response.retryAfter = 60
        /\ ~lastCheck.ok
        /\ "request" \notin DOMAIN req
        /\ trace = <<>>
        /\ pc = "done"
        /\ imp = NoImprover /\ ranked = <<>> /\ fan = <<>> /\ results = <<>>
        /\ ldPc = "idle" /\ ldResults = <<>>

C21_Witness ==
    /\ rl = "rejected" /\ pc = "done"
    /\ req.entry = "stream"
    /\ validatePipelineRequest(req.input.body).ok

\* C3: no file resolution, file fetch or provider call is made for a request
\* unless a rate-limit check was made for that request and returned allowed.
C3_BehindRateLimiter == CallsOf(AllCallKinds) # {} => rl = "allowed"

\* C4: the stages of executePipeline are entered in the order improving,
\* searching, loading, running, consolidating, complete, each at most once,
\* and every outbound call is made after the progress frame of its own stage
\* and before the progress frame of the next one.
C4_StageOrder ==
    req.entry = "stream" =>
        /\ Len(StagesEntered) <= Len(StageOrder)
        /\ StagesEntered = SubSeq(StageOrder, 1, Len(StagesEntered))
        /\ \A k \in CallsOf(AllCallKinds) : StageAt(k) = StageOfCall(trace[k].kind)

\* a complete run that fetched files, called both models and the consolidator
C4_Witness ==
    /\ StreamOpened
    /\ StagesEntered = StageOrder
    /\ CallsOf({"file"}) # {}
    /\ Cardinality(CallsOf({"model"})) = 2
    /\ FramesOf({"result"}) # {}

\* C5: an opened stream carries at most one terminal frame (result or error),
\* it is the last frame and is followed at once by the close, nothing is sent
\* after the close, and a finished stream carries exactly one terminal frame.
\* (The consumer reads the stream to its end: a consumer that cancels it is
\* not part of the model.)
C5_OneTerminalFrame ==
    StreamOpened =>
        /\ Cardinality(FramesOf({"result", "error"})) <= 1
        /\ \A k \in FramesOf({"result", "error"}) :
               k = Len(trace) - 1 /\ trace[Len(trace)] = CloseEvent
        /\ \A k \in 1..Len(trace) :
               trace[k] = CloseEvent => k = Len(trace) /\ k - 1 \in FramesOf({"result", "error"})
        /\ pc = "done" <=> Cardinality(FramesOf({"result", "error"})) = 1

\* a stream that ended with an error frame after progress frames were sent
C5_Witness ==
    /\ StreamOpened
    /\ pc = "done"
    /\ FramesOf({"error"}) # {}
    /\ Len(StagesEntered) >= 2
    /\ trace[Len(trace)] = CloseEvent

FailureReasons == {"http_error", "timeout", "empty"}

\* the message of the error frame comes from the call that failed
ErrorFromStage(error) ==
    LET stage == StagesEntered[Len(StagesEntered)]
    IN  CASE stage = "improving" ->
                 /\ error[1] = req.request.pipeline.promptImprover.provider
                 /\ error[2] \in FailureReasons
          [] stage = "searching" -> error = <<"github", "Failed to fetch repository tree">>
          [] stage = "running" ->
                 /\ \E i \in 1..Len(fan) : fan[i].st = "rejected" /\ fan[i].error = error
                 /\ error[1] \in Providers /\ error[2] \in FailureReasons
          [] stage = "consolidating" ->
                 /\ error[1] = req.request.pipeline.consolidator.provider
                 /\ error[2] \in FailureReasons
          [] OTHER -> FALSE

\* C6: when a call of the standard pipeline fails, the error frame with the
\* failed call's message ends the stream: no progress frame, call or result
\* frame comes after it, and no call is issued twice in a run.
C6_FailurePolicy ==
    StreamOpened =>
        /\ \A k \in FramesOf({"error"}) :
               /\ FramesOf({"result"}) = {}
               /\ FramesOf({"progress"}) \cup CallsOf(AllCallKinds) \subseteq 1..(k - 1)
               /\ ErrorFromStage(trace[k].error)
               /\ pc = "done"
        /\ (\E i \in 1..Len(fan) : fan[i].st = "rejected") => FramesOf({"error"}) # {}
        /\ Cardinality(CallsOf({"improver"})) <= 1
        /\ Cardinality(CallsOf({"tree"})) <= 1
        /\ Cardinality(CallsOf({"consolidator"})) <= 1
        /\ Cardinality(CallsOf({"model"})) <= Len(req.request.models)
        /\ \A k, m \in CallsOf({"file"}) : trace[k].to = trace[m].to => k = m

\* the second model call of a fan-out fails after the first one succeeded
C6_Witness ==
    /\ StreamOpened
    /\ Len(fan) = 2
    /\ fan[1].st = "fulfilled"
    /\ fan[2].st = "rejected"
    /\ FramesOf({"error"}) # {}
    /\ CallsOf({"file"}) # {}


NoFilesWarning == "No relevant files found. Running with prompt-only context."

\* C7: when ranking yields no candidate path the run goes on without any file
\* fetch: every model is called with an empty file set, only a provider
\* failure can end the run with an error, and a result comes from a
\* consolidator call and carries the warning and a non-empty consolidated text.
C7_ZeroCandidates ==
    (StreamOpened /\ Len(StagesEntered) >= 3 /\ Len(ranked) = 0) =>
        /\ CallsOf({"file"}) = {}
        /\ Len(StagesEntered) >= 4
        /\ Cardinality(CallsOf({"model"})) = Len(req.request.models)
        /\ \A k \in CallsOf({"model"}) : trace[k].files = <<>>
        /\ \A k \in FramesOf({"error"}) :
               trace[k].error[1] \in Providers /\ trace[k].error[2] \in FailureReasons
        /\ \A k \in FramesOf({"result"}) :
               /\ CallsOf({"consolidator"}) # {}
               /\ trace[k].data.warning = NoFilesWarning
               /\ trace[k].data.warning # ""
               /\ ~trace[k].data.consolidated.empty
               /\ trace[k].data.selectedFiles = <<>>
               /\ Len(trace[k].data.results) = Len(req.request.models)

NoLoadWarning == "Could not load any files. Running with prompt-only context."

\* C30: in every result of the standard pipeline the warning is set exactly
\* when selectedFiles is empty; it is the "no relevant files" text when the
\* ranking found no candidate and the different "could not load" text when
\* there were candidates and none of them was loaded.
C30_WarningTracksDegradation ==
    /\ NoFilesWarning # NoLoadWarning
    /\ req.entry = "stream" =>
           \A k \in FramesOf({"result"}) :
               /\ trace[k].data.warning # "undefined" <=> trace[k].data.selectedFiles = <<>>
               /\ trace[k].data.warning = NoFilesWarning <=> Len(ranked) = 0
               /\ trace[k].data.warning = NoLoadWarning <=>
                      (Len(ranked) > 0 /\ trace[k].data.selectedFiles = <<>>)

\* a result after candidates were ranked and every fetch of them failed
C30_Witness ==
    /\ req.entry = "stream"
    /\ Len(ranked) > 0
    /\ CallsOf({"file"}) # {}
    /\ \E k \in FramesOf({"result"}) :
           /\ trace[k].data.selectedFiles = <<>>
           /\ trace[k].data.warning = NoLoadWarning

\* a result delivered although the keywords matched nothing in the tree
C7_Witness ==
    /\ StreamOpened
    /\ Len(ranked) = 0
    /\ Len(imp.keywords) > 0
    /\ FramesOf({"result"}) # {}
    /\ CallsOf({"consolidator"}) # {}

AgentProviderCalls == CallsOf({"role", "synthesis", "confidence"})

\* scope resolution returned a list of paths for the request being served
ScopeResolved ==
    /\ req.entry = "agent"
    /\ "scope" \in DOMAIN req
    /\ req.scope.type # "invalid"
    /\ pc \notin {"agent_tree", "agent_commits", "agent_details"}
    /\ ~(response.kind = "json" /\ response.status = 500 /\ ldMode = "none")

\* C8: an agent-review request whose scope resolves to no path, or whose
\* loading yields no file, is answered with a 400 that names the reason, and
\* no role, synthesis or confidence call is made for it.
C8_AgentNothingToReview ==
    req.entry = "agent" =>
        /\ AgentProviderCalls # {} => Len(ranked) > 0 /\ ldPc = "done" /\ Len(ldResults) > 0
        /\ (ScopeResolved /\ Len(ranked) = 0) =>
               /\ pc = "done"
               /\ response = JsonResponse(400, "No files found for scope")
        /\ (ScopeResolved /\ ldPc = "done" /\ Len(ldResults) = 0) =>
               /\ pc = "done"
               /\ response = JsonResponse(400, "Found file paths but could not load contents within caps.")

\* paths were resolved and fetched, but no file was loaded
C8_Witness ==
    /\ req.entry = "agent"
    /\ Len(ranked) > 0
    /\ CallsOf({"file"}) # {}
    /\ ldPc = "done" /\ Len(ldResults) = 0
    /\ response.kind = "json" /\ response.status = 400
    /\ AgentProviderCalls = {}

\* C9: a request whose scope parseScope classifies as invalid is answered
\* without any tree, commit or content fetch and without any provider call;
\* past the auth and body checks the answer is the 400 "Invalid scope".
C9_InvalidScope ==
    (req.entry = "agent" /\ parseScope(req.input.body.scope).type = "invalid") =>
        /\ CallsOf(AllCallKinds) = {}
        /\ pc = "done"
        /\ response.kind = "json"
        /\ (req.input.authed /\ AgentBodyError(req.input.body) = "none") =>
               response = JsonResponse(400, "Invalid scope")

\* an authenticated, well-formed request with an unparseable scope was rejected
C9_Witness ==
    /\ req.entry = "agent"
    /\ req.input.authed
    /\ AgentBodyError(req.input.body) = "none"
    /\ parseScope(req.input.body.scope).type = "invalid"
    /\ response = JsonResponse(400, "Invalid scope")

\* C10: whatever the completion order, the value stored for input position i
\* of a fan-out belongs to models[i] (runModels) or to enabledAgents[i] (agent
\* roles), and a delivered result has exactly one entry per input position.
C10_FanOutOrder ==
    /\ req.entry = "stream" =>
           /\ \A i \in 1..Len(results) :
                  results[i] # Unset => results[i].model = req.request.models[i]
           /\ \A k \in FramesOf({"result"}) :
                  /\ Len(trace[k].data.results) = Len(req.request.models)
                  /\ \A i \in 1..Len(req.request.models) :
                         trace[k].data.results[i].model = req.request.models[i]
    /\ req.entry = "agent" =>
           /\ \A i \in 1..Len(results) :
                  results[i] # Unset => results[i].agent = EnabledAgentsOf(req.input.body)[i]
           /\ (response.kind = "json" /\ response.status = 200) =>
                  /\ Len(response.results) = Len(EnabledAgentsOf(req.input.body))
                  /\ \A i \in 1..Len(response.results) :
                         response.results[i].agent = EnabledAgentsOf(req.input.body)[i]

\* the second of two different providers completed before the first
C10_Witness ==
    /\ req.entry = "stream"
    /\ Len(fan) = 2
    /\ fan[1] = Pending
    /\ fan[2].st = "fulfilled"
    /\ results[2].model = req.request.models[2]
    /\ req.request.models[1] # req.request.models[2]

\* C11: once one call of a fan-out has failed the fan-out has failed: the
\* request is over with the failed call's error, no consolidator, synthesis
\* or confidence call is issued, and no result (frame or success response)
\* is delivered, however the sibling calls end.
C11_AllOrNothing ==
    \A i \in 1..Len(fan) :
        fan[i].st = "rejected" =>
            /\ pc = "done"
            /\ CallsOf({"consolidator", "synthesis", "confidence"}) = {}
            /\ FramesOf({"result"}) = {}
            /\ req.entry = "stream" =>
                   \E k \in FramesOf({"error"}) : trace[k].error = fan[i].error
            /\ req.entry = "agent" => response = JsonResponse(500, fan[i].error)

\* a role call failed after one sibling had succeeded, and another sibling
\* settled after the failure
C11_Witness ==
    /\ req.entry = "agent"
    /\ Len(fan) = 4
    /\ fan[1].st = "fulfilled"
    /\ fan[2].st = "rejected"
    /\ fan[3].st = "ignored"
    /\ fan[4] = Pending

\* the role calls started for the request, in the order started
RoleCallsMade == SelectSeq(trace, LAMBDA e : IsCall(e, {"role"}))

\* C14: the role at index i (from 0) is dispatched to providers[i mod n] with
\* the model id resolved for that provider from the request's selection, and
\* the result stored for the role reports that provider and that model id.
\* a confidence reply with no parseable JSON object, or with an object that
\* lacks score or recommendation (or no reply at all)
ConfidenceUnusable(reply) ==
    reply.st = "ok" =>
        \/ reply.text.json.t # "obj"
        \/ ~HasField(reply.text.json, "score")
        \/ ~HasField(reply.text.json, "recommendation")

\* C16: a confidence reply without a parseable JSON object, or without score
\* or recommendation, leaves the agent request successful: the response has
\* every role output and the synthesized text, and no confidence block.
\* Without includeConfidence no confidence call is issued and the block is
\* absent.
C16_ConfidenceNonFatal ==
    /\ []((req.entry = "agent" /\ ~AgentConfigOf(req.input.body).includeConfidence) =>
             /\ CallsOf({"confidence"}) = {}
             /\ (pc = "done" /\ response.status = 200) => ~response.confidence.present)
    /\ [][\A reply \in ConfidenceReplies :
              (ConfidenceSettle(reply) /\ ConfidenceUnusable(reply)) =>
                  /\ response'.status = 200
                  /\ Len(response'.results) = Len(EnabledAgentsOf(req.input.body))
                  /\ \A i \in 1..Len(response'.results) :
                         /\ response'.results[i] # Unset
                         /\ response'.results[i].agent = EnabledAgentsOf(req.input.body)[i]
                  /\ response'.synthesized = response.synthesized
                  /\ ~response'.confidence.present]_vars

C16_Witness ==
    /\ req.entry = "agent" /\ pc = "done"
    /\ AgentConfigOf(req.input.body).includeConfidence
    /\ Cardinality(CallsOf({"confidence"})) = 1
    /\ response.status = 200
    /\ Len(response.results) = Len(EnabledAgentsOf(req.input.body))
    /\ ~response.confidence.present

\* the content is what the sanitizer returns for some fetched content, or
\* the part of it that the loader's budget kept
IsSanitizerOutput(content) ==
    \E c \in FetchContents :
        content = Slice(sanitizeFileContent(c, MAX_FILE_CHARS), ContentLength(content))

\* C17: in the standard pipeline and in agent-review mode, every file content
\* in the user prompt of a provider call is the sanitizer's output for the
\* fetched content, never the raw fetched text.
C17_SanitizedPrompts ==
    \A k \in CallsOf({"model", "role"}) :
        \A n \in 1..Len(trace[k].files) : IsSanitizerOutput(trace[k].files[n].content)

C14_RoundRobin ==
    req.entry = "agent" =>
        LET models == req.input.body.models
            roles == EnabledAgentsOf(req.input.body)
            providerOf(i) == models[((i - 1) % Len(models)) + 1]
            modelOf(i) == validateModelId(providerOf(i),
                                          req.input.body.selectedModels[providerOf(i)])
        IN  /\ Len(RoleCallsMade) \in {0, Len(roles)}
            /\ \A i \in 1..Len(RoleCallsMade) :
                   /\ RoleCallsMade[i].agent = roles[i]
                   /\ RoleCallsMade[i].to = providerOf(i)
                   /\ RoleCallsMade[i].modelId = modelOf(i)
            /\ \A i \in 1..Len(results) :
                   results[i] # Unset =>
                       /\ results[i].agent = roles[i]
                       /\ results[i].provider = providerOf(i)
                       /\ results[i].modelId = modelOf(i)

\* four roles over two providers: the providers alternate
C14_Witness ==
    /\ req.entry = "agent"
    /\ response.kind = "json" /\ response.status = 200
    /\ Len(req.input.body.models) = 2
    /\ Len(response.results) = 4
    /\ [i \in 1..4 |-> response.results[i].provider]
           = <<req.input.body.models[1], req.input.body.models[2],
               req.input.body.models[1], req.input.body.models[2]>>
    /\ req.input.body.models[1] # req.input.body.models[2]

(***************************************************************************)
(* The loaders on their own, over candidate lists of every length          *)
(***************************************************************************)
LoaderInit ==
    /\ RateIdle
    /\ RequestIdle
    /\ FnIdle
    /\ \E mode \in {"standard", "agent"}, n \in 0..MaxPaths :
          /\ ldMode = mode
          /\ ldPaths = [i \in 1..n |-> i]
          /\ ldI = 0
          /\ ldFetched = <<>>
          /\ ldTotal = 0
          /\ ldResults = <<>>
          /\ IF n = 0
             THEN ldPc = "done" /\ ldBatch = <<>>
             ELSE /\ ldPc = "await"
                  /\ ldBatch = [j \in 1..Len(BatchOf([i \in 1..n |-> i], 0, LOADER_CONCURRENCY)) |-> Pending]

LoaderNext ==
    \/ \E j \in 1..LOADER_CONCURRENCY, outcome \in FetchOutcomes :
          FetchSettle(j, outcome) /\ UNCHANGED rateVars /\ UNCHANGED reqVars /\ UNCHANGED fnVars
    \/ StandardBatchDone /\ UNCHANGED rateVars /\ UNCHANGED reqVars /\ UNCHANGED fnVars
    \/ AgentBatchDone /\ UNCHANGED rateVars /\ UNCHANGED reqVars /\ UNCHANGED fnVars

SpecLoader == LoaderInit /\ [][LoaderNext]_vars

\* the files of the settled batch that were kept (fetched, not oversized)
KeptOfBatch == SelectSeq(ldBatch, LAMBDA r : r.st = "file")

\* the positions in KeptOfBatch at which the running total passes the budget
OverBudgetAt ==
    {c \in 1..Len(KeptOfBatch) :
        ldTotal + SumLengths(SubSeq(KeptOfBatch, 1, c)) > MAX_TOTAL_CHARS}

\* C23: when a kept file would push the running total above 220,000 the
\* standard loader stops at it: it keeps a prefix of exactly the remaining
\* length if more than 1,000 characters remain and drops the file otherwise,
\* takes no later file of the batch and starts no further batch; the files
\* returned are in candidate order.
C23_EarlyTermination ==
    [][(ldMode = "standard" /\ ldPc = "await" /\ AllSettled(ldBatch)) =>
          /\ \A k \in 1..(Len(ldResults') - 1) : ldResults'[k].path < ldResults'[k + 1].path
          /\ IF OverBudgetAt = {}
             THEN ldResults' = ldResults \o KeptOfBatch
             ELSE LET c == CHOOSE x \in OverBudgetAt : \A y \in OverBudgetAt : x <= y
                      before == SubSeq(KeptOfBatch, 1, c - 1)
                      remaining == MAX_TOTAL_CHARS - (ldTotal + SumLengths(before))
                  IN  /\ ldPc' = "done" /\ ldBatch' = <<>>
                      /\ IF remaining > 1000
                         THEN /\ Len(ldResults') = Len(ldResults) + c
                              /\ SubSeq(ldResults', 1, Len(ldResults') - 1) = ldResults \o before
                              /\ ldResults'[Len(ldResults')].path = KeptOfBatch[c].path
                              /\ ContentLength(ldResults'[Len(ldResults')].content) = remaining
                              /\ ldResults'[Len(ldResults')].content
                                     = Slice(KeptOfBatch[c].content, remaining)
                         ELSE ldResults' = ldResults \o before]_vars

\* a finished standard load whose ninth candidate was cut to the 10,000
\* characters that remained, while the tenth, fetched in the same batch, was
\* not taken
C23_Witness ==
    /\ ldMode = "standard" /\ ldPc = "done"
    /\ Len(ldPaths) = 10
    /\ Len(ldResults) = 8
    /\ ldResults[8].path = 9
    /\ ContentLength(ldResults[8].content) = 10000
    /\ SumLengths(ldResults) = MAX_TOTAL_CHARS

\* the fetches of the batch that have been started and have not settled
InFlightFetches == {j \in 1..Len(ldBatch) : ldBatch[j] = Pending}

\* C24: in both loaders at most 4 file fetches are in flight; a fetch of the
\* next batch starts only when every fetch of the batch before has settled;
\* a fetch that settles, failed or not, leaves its siblings in flight, and a
\* batch with failed or oversized fetches is followed by the next batch.
C24_Batching ==
    /\ [](Cardinality(InFlightFetches) <= 4 /\ Len(ldBatch) <= 4)
    /\ [][/\ (ldI' # ldI \/ \E j \in 1..Len(ldBatch') :
                               ldBatch'[j] = Pending /\ (j > Len(ldBatch) \/ ldBatch[j] # Pending))
               => (ldPc = "await" /\ AllSettled(ldBatch) /\ ldI' = ldI + 4)
          /\ (ldPc = "await" /\ ~AllSettled(ldBatch)) =>
                 /\ ldPc' = "await" /\ ldI' = ldI /\ Len(ldBatch') = Len(ldBatch)
                 /\ \E j \in InFlightFetches :
                        /\ ldBatch'[j] # Pending
                        /\ \A k \in 1..Len(ldBatch) : k # j => ldBatch'[k] = ldBatch[k]
          /\ (/\ ldPc = "await" /\ AllSettled(ldBatch)
              /\ ldI + 4 < Len(ldPaths)
              /\ ldMode = "standard" =>
                     (OverBudgetAt = {} /\ ldTotal + SumLengths(KeptOfBatch) < MAX_TOTAL_CHARS))
               => /\ ldPc' = "await" /\ ldI' = ldI + 4
                  /\ Len(ldBatch') = Min(4, Len(ldPaths) - ldI')
                  /\ \A j \in 1..Len(ldBatch') : ldBatch'[j] = Pending]_vars

\* the second batch is in flight, one of its fetches has failed and its
\* siblings are still pending, after a first batch in which a fetch failed
C24_Witness ==
    /\ ldPc = "await" /\ ldI = 4 /\ Len(ldBatch) = 4
    /\ ldBatch[2] = Failed
    /\ InFlightFetches = {1, 3, 4}
    /\ IF ldMode = "standard" THEN Len(ldResults) = 3 ELSE Len(ldFetched) = 3

\* C1: the files a loader returns total at most 220,000 characters and each
\* has at most 30,000 characters, in the standard loader and in agent mode.
C1_LoaderBudget ==
    ldPc = "done" =>
        /\ SumLengths(ldResults) <= MAX_TOTAL_CHARS
        /\ \A k \in 1..Len(ldResults) : ContentLength(ldResults[k].content) <= MAX_FILE_CHARS

\* a finished load in which the budget cut a file short after a full-size
\* file was rewritten by the sanitizer
C1_Witness ==
    /\ ldPc = "done"
    /\ SumLengths(ldResults) = MAX_TOTAL_CHARS
    /\ Len(ldResults) > 7
    /\ ldMode = "standard"
    /\ \E k \in 1..Len(ldResults) : ldResults[k].content.segs = <<"ROLE">>

(***************************************************************************)
(* Commit scopes resolved on their own                                     *)
(***************************************************************************)
CommitScopeInputs ==
    [authed : {TRUE}, key : {"alice"},
     body : {AgentBody(scope, <<"anthropic">>, NoAgentConfig) :
                scope \in {<<>>, NatToString(MaxCommits)}}]

\* GET /commits?per_page=n answers with at most n commits
CommitListInputs ==
    {[st |-> "error"]}
    \cup {[st |-> "ok", shas |-> [i \in 1..n |-> <<"c">> \o NatToString(i)]] : n \in 0..MaxCommits}

CommitDetailInputs ==
    CommitDetailReplies
    \cup {[st |-> "ok", files |-> <<>>],
          [st |-> "ok", files |-> <<[filename |-> <<"d", "o", "c", "s", "/", "r", "e", "a", "d", "m", "e", ".", "m", "d">>, status |-> "added"],
                                    [filename |-> <<"l", "i", "b", "/", "M", "o", "d", "a", "l", ".", "t", "s", "x">>, status |-> "renamed"]>>]}

CommitsNext ==
    \/ \E input \in CommitScopeInputs : AgentRequest(input)
    \/ \E reply \in CommitListInputs :
          /\ pc = "agent_commits"
          /\ reply.st = "ok" => Len(reply.shas) <= trace[1].to
          /\ AgentCommitsSettle(reply)
    \/ \E j \in 1..COMMIT_BATCH_SIZE, reply \in CommitDetailInputs : CommitDetailSettle(j, reply)
    \/ CommitBatchDone

SpecCommits == Init /\ [][CommitsNext]_vars

Range(seq) == {seq[k] : k \in 1..Len(seq)}
NoDuplicates(seq) == \A k, m \in 1..Len(seq) : seq[k] = seq[m] => k = m

\* the non-removed filenames of the commits of the batch whose detail fetch succeeded
BatchFilenames ==
    {f.filename : f \in {g \in UNION {Range(cm.batch[j].files) :
                                         j \in {k \in 1..Len(cm.batch) : cm.batch[k].st = "ok"}} :
                            g.status # "removed"}}

CommitsInFlight == {j \in 1..Len(cm.batch) : cm.batch[j] = Pending}

\* C26: for a commits(n) or empty scope (listed with n = 1) the resolved list
\* is the duplicate-free union of the non-removed filenames of the commits
\* whose detail fetch succeeded; a failed detail fetch adds nothing and stops
\* neither its siblings nor later batches; details are fetched in sequential
\* batches of at most 5.
C26_CommitScope ==
    /\ []((req.entry = "agent" /\ "scope" \in DOMAIN req /\ trace # <<>>) =>
             /\ req.scope.type = "empty" => trace[1] = CallEvent("commits", 1)
             /\ req.scope.type = "commits" =>
                    trace[1] = CallEvent("commits", req.scope.commitCount))
    /\ [](Len(cm.batch) <= 5 /\ NoDuplicates(cm.files))
    /\ [][/\ (\E j \in 1..Len(cm'.batch) :
                  cm'.batch[j] = Pending /\ (j > Len(cm.batch) \/ cm.batch[j] # Pending))
               => (cm.batch = <<>> \/ AllSettled(cm.batch))
          /\ (pc = "agent_details" /\ ~AllSettled(cm.batch)) =>
                 /\ pc' = "agent_details" /\ cm'.files = cm.files /\ cm'.i = cm.i
                 /\ \E j \in CommitsInFlight :
                        /\ cm'.batch[j] # Pending
                        /\ \A k \in 1..Len(cm.batch) : k # j => cm'.batch[k] = cm.batch[k]
          /\ (pc = "agent_details" /\ AllSettled(cm.batch)) =>
                 /\ Range(cm'.files) = Range(cm.files) \cup BatchFilenames
                 /\ SubSeq(cm'.files, 1, Len(cm.files)) = cm.files
                 /\ IF cm.i + 5 < Len(cm.shas)
                    THEN /\ pc' = "agent_details" /\ cm'.i = cm.i + 5
                         /\ Len(cm'.batch) = Min(5, Len(cm.shas) - cm'.i)
                         /\ \A j \in 1..Len(cm'.batch) : cm'.batch[j] = Pending
                    ELSE ranked' = cm'.files /\ pc' # "agent_details"]_vars

\* the second batch of details is in flight with one fetch failed and its
\* sibling pending, after a first batch that yielded three distinct files
C26_Witness ==
    /\ pc = "agent_details"
    /\ Len(cm.shas) = 7 /\ cm.i = 5
    /\ cm.batch = <<Failed, Pending>>
    /\ Len(cm.files) = 3
    /\ Cardinality(CallsOf({"commit"})) = 7

(***************************************************************************)
(* Library functions called on their own                                   *)
(***************************************************************************)
ModelIdInputs ==
    {NULL, UNDEFINED, <<>>} \cup OPENAI_CHAT_MODELS \cup ANTHROPIC_MODELS
    \cup {<<"g", "p", "t", "-", "4">>,
     <<"g", "p", "t", "-", "4", "o">>,
     <<"o", "1", "-", "m", "i", "n", "i">>,
     <<"t", "e", "x", "t", "-", "d", "a", "v", "i", "n", "c", "i", "-", "0", "0", "3">>,
     <<"d", "a", "v", "i", "n", "c", "i", "-", "0", "0", "2">>,
     <<"c", "l", "a", "u", "d", "e", "-", "2">>,
     <<"g", "e", "m", "i", "n", "i", "-", "2", ".", "5", "-", "p", "r", "o">>,
     <<"l", "l", "a", "m", "a">>}

ValidateModelIdCalls ==
    [fn : {"validateModelId", "part_004 validateModelId"},
     provider : Providers, modelId : ModelIdInputs]

\* the decimal digits of a natural number
RECURSIVE Decimal(_)
Decimal(n) ==
    IF n < 10 THEN <<SubSeq(<<"0", "1", "2", "3", "4", "5", "6", "7", "8", "9">>, n + 1, n + 1)[1]>>
    ELSE Decimal(n \div 10) \o Decimal(n % 10)

\* the i-th entry of a repository tree: a component, a vendored file, a
\* directory or a document
TreeEntry(i) ==
    IF i % 5 = 0
    THEN [path |-> <<"n", "o", "d", "e", "_", "m", "o", "d", "u", "l", "e", "s", "/", "m", "o", "d", "a", "l">> \o Decimal(i) \o <<".", "j", "s">>, type |-> "blob"]
    ELSE IF i % 7 = 0
    THEN [path |-> <<"l", "i", "b", "/", "m", "o", "d", "a", "l">> \o Decimal(i), type |-> "tree"]
    ELSE IF i % 4 = 0
    THEN [path |-> <<"d", "o", "c", "s", "/", "r", "e", "a", "d", "m", "e">> \o Decimal(i) \o <<".", "m", "d">>, type |-> "blob"]
    ELSE [path |-> <<"l", "i", "b", "/", "M", "o", "d", "a", "l">> \o Decimal(i) \o <<".", "t", "s", "x">>, type |-> "blob"]

TreeOf(n) == [i \in 1..n |-> TreeEntry(i)]

\* thirteen keywords, each of them a part of the file name modal<n>.js
FileNameKeywords ==
    <<<<"m", "o", "d", "a", "l">>,
      <<"m", "o", "d">>,
      <<"o", "d", "a">>,
      <<"d", "a", "l">>,
      <<"m", "o">>,
      <<"o", "d">>,
      <<"d", "a">>,
      <<"a", "l">>,
      <<"j", "s">>,
      <<"m">>,
      <<"o">>,
      <<"d">>,
      <<"a">>>>

KeywordLists == {FileNameKeywords, <<<<"m", "o", "d", "a", "l">>, <<"r", "e", "a", "d", "m", "e">>>>, <<>>, <<<<"m", "o", "d", "a", "l">>>>, <<<<"z", "z", "z">>, <<"u", "i">>>>, <<<<"u", "i">>, <<"m", "o", "d", "a", "l">>, <<"l", "i", "b">>>>}

RankFilesCalls ==
    [fn : {"rankFiles"}, tree : {TreeOf(n) : n \in 0..MaxTree},
     keywords : KeywordLists, maxFiles : {0, 4, 11, 25}]

\* JSON values a provider may write in the fields of a confidence reply
ScoreValues ==
    {NoJson, JNull, JNum(0 - 5), JNum(0), JNum(50), JNum(100), JNum(150), JInfinity,
     JBool(TRUE), JBool(FALSE), JStr(<<>>), JStr(<<"5", "0">>), JStr(<<"1", "5", "0">>), JStr(<<"h", "i", "g", "h">>),
     JArr(<<>>), JArr(<<JNum(7)>>), JObj(<<>>)}

BreakdownValues ==
    {NoJson, JNull, JStr(<<"n", "/", "a">>),
     JObj([understanding |-> JNum(0 - 5), solution |-> JNum(50), sideEffects |-> JNum(101)]),
     JObj([understanding |-> JStr(<<"h", "i", "g", "h">>), solution |-> JNull]),
     JObj([sideEffects |-> JObj(<<>>)])}

RecommendationValues ==
    {NoJson, JNull, JStr(<<>>), JStr(<<"p", "r", "o", "c", "e", "e", "d">>), JStr(<<"a", "s", "k">>), JStr(<<"s", "t", "o", "p">>),
     JStr(<<"m", "a", "y", "b", "e">>), JNum(1), JBool(TRUE)}

\* the object with the fields that are present (NoJson: the field is absent)
ConfidenceObject(score, breakdown, recommendation) ==
    LET val == [score |-> score, breakdown |-> breakdown, recommendation |-> recommendation]
    IN  JObj([n \in {m \in DOMAIN val : val[m] # NoJson} |-> val[n]])

ConfidenceCalls ==
    [fn : {"confidence"},
     text : {JsonText(ConfidenceObject(sc, bd, rc)) :
                 sc \in ScoreValues, bd \in BreakdownValues, rc \in RecommendationValues}
            \cup {Prose("n/a"), WrappedJsonText(JArr(<<>>))}]

RepoInputs ==
    {<<>>, <<"o", "/", "r">>, <<"o">>, <<"/", "r">>, <<"o", "/">>, <<"o", "/", "/", "r">>, <<"o", "/", "r", "/", "x">>, <<"o", "/", "r", "/">>}

ValidatePipelineRequestCalls ==
    [fn : {"validatePipelineRequest"},
     body : {[GoodBody(models) EXCEPT !.repo = repo] :
                repo \in RepoInputs,
                models \in ModelLists \cup {<<>>, <<"openai", "mistral">>, <<"google", "google">>}}]

\* the characters scope arguments are enumerated over
ScopeChars == {" ", "0", "1", "2", "-", "+", ".", "*", "?", "[", "/", "a", "!"}

RECURSIVE StringsUpTo(_, _)
StringsUpTo(chars, n) ==
    IF n = 0 THEN {<<>>}
    ELSE LET shorter == StringsUpTo(chars, n - 1)
         IN  shorter \cup {Append(s, c) : s \in shorter, c \in chars}

ScopeInputs ==
    StringsUpTo(ScopeChars, MaxScopeLen)
    \cup {NULL, UNDEFINED, <<" ", "1", "2", " ">>, <<"0", "0", "1", "2">>, <<"s", "r", "c", "/", "*", "*", "/", "*", ".", "t", "s">>, <<"s", "r", "c", "/", "l", "i", "b", "/", "f", "o", "o", ".", "t", "s">>, <<"R", "E", "A", "D", "M", "E", ".", "m", "d">>, <<"1", "2", " ", "c", "o", "m", "m", "i", "t", "s">>}

ParseScopeCalls == [fn : {"parseScope"}, scope : ScopeInputs]

GlobInputs ==
    {<<"s", "r", "c", "/", "*", ".", "t", "s">>,
     <<"s", "r", "c", "/", "*", "*", "/", "*", ".", "t", "s", "x">>,
     <<"*", "*", "/", "a", ".", "t", "s">>,
     <<"s", "r", "c", "/", "?", ".", "t", "s">>,
     <<"*", ".", "t", "s">>,
     <<"s", "r", "c", "/", "a", ".", "t", "s">>}

GlobPathInputs ==
    {<<"s", "r", "c", "/", "a", ".", "t", "s">>,
     <<"s", "r", "c", "/", "a", "/", "b", ".", "t", "s">>,
     <<"s", "r", "c", "/", "a", ".", "t", "s", "/", "b">>,
     <<"s", "r", "c", "/", "a", ".", "t", "s", "x">>,
     <<"s", "r", "c", "/", "c", "o", "m", "p", "o", "n", "e", "n", "t", "s", "/", "B", "u", "t", "t", "o", "n", ".", "t", "s", "x">>,
     <<"l", "i", "b", "/", "B", "u", "t", "t", "o", "n", ".", "t", "s", "x">>,
     <<"a", ".", "t", "s">>,
     <<"s", "r", "c", "/", "a", "b", ".", "t", "s">>,
     <<"x", "/", "s", "r", "c", "/", "a", ".", "t", "s">>}

MatchesGlobCalls == [fn : {"matchesGlob"}, filePath : GlobPathInputs, glob : GlobInputs]

\* values a provider may write in the fields of an improver reply
ImproverPromptValues == {NoJson, JNull, JNum(5), JStr(<<>>), JStr(<<"b", "e", "t", "t", "e", "r">>)}

ImproverKeywordValues ==
    {NoJson, JStr(<<"a", "u", "t", "h">>), JArr(<<>>), JArr(<<JStr(<<"a", "u", "t", "h">>), JNum(1)>>),
     JArr(<<JStr(<<"a", "u", "t", "h">>), JStr(<<"m", "o", "d", "a", "l">>)>>),
     JArr([i \in 1..22 |-> JStr(<<"k">> \o Decimal(i))])}

ImproverMaxFilesValues ==
    {NoJson, JNull, JStr(<<"7">>), JInfinity, JNum(0 - 3), JNum(2), JNum(12), JNum(30)}

\* the object with the fields that are present (NoJson: the field is absent)
ObjectOf(val) == JObj([n \in {m \in DOMAIN val : val[m] # NoJson} |-> val[n]])

ImproverSearchValues ==
    {NoJson, JNull, JArr(<<>>), JStr(<<"a", "u", "t", "h">>)}
    \cup {ObjectOf([keywords |-> kw, max_files |-> mf]) :
              kw \in ImproverKeywordValues, mf \in ImproverMaxFilesValues}

ImproverJsonValues ==
    {JNull, JNum(7), JArr(<<>>), JObj([note |-> JStr(<<"b", "e", "t", "t", "e", "r">>)])}
    \cup {ObjectOf([improved_user_prompt |-> pr, search |-> sr]) :
              pr \in ImproverPromptValues, sr \in ImproverSearchValues}

ImproverReplyInputs ==
    HttpFailures
    \cup {[st |-> "ok", text |-> t] : t \in {EmptyText, Prose("sorry")}}
    \cup {[st |-> "ok", text |-> JsonText(j)] : j \in ImproverJsonValues}
    \cup {[st |-> "ok", text |-> WrappedJsonText(j)] : j \in ImproverJsonValues}

ImprovePromptCalls ==
    [fn : {"improvePrompt"}, provider : {"openai"}, reply : ImproverReplyInputs,
     userMessage : {<<" ", "F", "i", "x", " ", "t", "h", "e", " ", "M", "o", "d", "a", "l", " ">>, <<"p", "l", "e", "a", "s", "e", " ", "u", "p", "d", "a", "t", "e", " ", "t", "h", "e", " ", "c", "o", "d", "e">>}]


\* the pieces the sanitizer's inputs are put together from
SanitizerPieces ==
    {<<"<", "|">>, <<"|", ">">>, <<"a">>, <<"<", "|", "a", "|", ">">>,
     <<"u", "s", "e", "r", ":", " ">>, <<"o", "v", "e", "r", "r", "i", "d", "e", ":">>}
MaxPieces == 4

RECURSIVE Flatten(_)
Flatten(seqs) == IF seqs = <<>> THEN <<>> ELSE Head(seqs) \o Flatten(Tail(seqs))

SanitizerInputs ==
    {Flatten(ps) : ps \in UNION {[1..n -> SanitizerPieces] : n \in 0..MaxPieces}}

SanitizeFileContentCalls ==
    [fn : {"sanitizeFileContent"}, content : SanitizerInputs, maxLength : {MAX_FILE_CHARS}]

FnInputs ==
    ValidateModelIdCalls \cup RankFilesCalls \cup ConfidenceCalls \cup ValidatePipelineRequestCalls
    \cup ParseScopeCalls \cup MatchesGlobCalls \cup ImprovePromptCalls
    \cup SanitizeFileContentCalls

\* the function called returns
FnReturn(value) ==
    /\ fnOut = NotReturned
    /\ fnOut' = Returned(value)
    /\ UNCHANGED fnIn
    /\ UNCHANGED rateVars
    /\ UNCHANGED loaderVars
    /\ UNCHANGED reqVars

ValidateModelIdReturn ==
    /\ fnIn.fn = "validateModelId"
    /\ FnReturn(validateModelId(fnIn.provider, fnIn.modelId))

Part004ValidateModelIdReturn ==
    /\ fnIn.fn = "part_004 validateModelId"
    /\ FnReturn(Part004_validateModelId(fnIn.provider, fnIn.modelId))

RankFilesReturn ==
    /\ fnIn.fn = "rankFiles"
    /\ FnReturn(rankFiles(fnIn.tree, fnIn.keywords, fnIn.maxFiles))

ConfidenceReturn ==
    /\ fnIn.fn = "confidence"
    /\ FnReturn(ConfidenceOf(fnIn.text))

ValidatePipelineRequestReturn ==
    /\ fnIn.fn = "validatePipelineRequest"
    /\ FnReturn(validatePipelineRequest(fnIn.body))

ParseScopeReturn ==
    /\ fnIn.fn = "parseScope"
    /\ FnReturn(parseScope(fnIn.scope))

MatchesGlobReturn ==
    /\ fnIn.fn = "matchesGlob"
    /\ FnReturn(matchesGlob(fnIn.filePath, fnIn.glob))

ImprovePromptReturn ==
    /\ fnIn.fn = "improvePrompt"
    /\ FnReturn(improvePrompt(fnIn.provider, fnIn.reply, fnIn.userMessage))

SanitizeFileContentReturn ==
    /\ fnIn.fn = "sanitizeFileContent"
    /\ FnReturn(sanitizeFileContentText(fnIn.content, fnIn.maxLength))

FnInit ==
    /\ RateIdle
    /\ LoaderIdle
    /\ RequestIdle
    /\ fnIn \in FnInputs
    /\ fnOut = NotReturned

FnNext ==
    \/ ValidateModelIdReturn
    \/ Part004ValidateModelIdReturn
    \/ RankFilesReturn
    \/ ConfidenceReturn
    \/ ValidatePipelineRequestReturn
    \/ ParseScopeReturn
    \/ MatchesGlobReturn
    \/ ImprovePromptReturn
    \/ SanitizeFileContentReturn

SpecFn == FnInit /\ [][FnNext]_vars

Allowlist(provider) ==
    IF provider = "openai" THEN OPENAI_CHAT_MODELS ELSE ANTHROPIC_MODELS

\* C12: for openai and anthropic, validateModelId returns a member of the
\* provider's allowlist or the provider's default id, and never returns
\* unchanged a requested id that is not in the allowlist.
C12_InsideAllowlist ==
    (/\ fnIn.fn \in {"validateModelId", "part_004 validateModelId"}
     /\ fnIn.provider \in {"openai", "anthropic"}
     /\ fnOut.returned) =>
        /\ fnOut.value \in Allowlist(fnIn.provider)
                           \cup {IF fnIn.fn = "validateModelId"
                                 THEN getDefaultModel(fnIn.provider)
                                 ELSE Part004_getDefaultModel(fnIn.provider)}
        /\ (/\ fnIn.modelId \notin Allowlist(fnIn.provider)
            /\ fnIn.modelId # getDefaultModel(fnIn.provider)) => fnOut.value # fnIn.modelId

\* C13: rankFiles returns at most max(maxFiles * 2, 20) paths, each the path
\* of a blob of the tree, each with a score above zero.
C13_RankerBound ==
    (fnIn.fn = "rankFiles" /\ fnOut.returned) =>
        /\ Len(fnOut.value) <= Max(fnIn.maxFiles * 2, 20)
        /\ \A k \in 1..Len(fnOut.value) :
               /\ \E i \in 1..Len(fnIn.tree) :
                      fnIn.tree[i].type = "blob" /\ fnIn.tree[i].path = fnOut.value[k]
               /\ scorePath(fnOut.value[k], fnIn.keywords) > 0

\* more than 20 blobs score above zero and the list was cut to 20
C13_Witness ==
    /\ fnIn.fn = "rankFiles" /\ fnOut.returned
    /\ fnIn.maxFiles = 4
    /\ Len(fnOut.value) = 20
    /\ \E i \in 1..Len(fnIn.tree) :
           /\ fnIn.tree[i].type = "blob"
           /\ scorePath(fnIn.tree[i].path, fnIn.keywords) > 0
           /\ \A k \in 1..Len(fnOut.value) : fnOut.value[k] # fnIn.tree[i].path
    /\ \E i \in 1..Len(fnIn.tree) :
           fnIn.tree[i].type = "tree" /\ scorePath(fnIn.tree[i].path, fnIn.keywords) > 0

InPercentRange(x) == ~x.nan /\ x.finite /\ x.v \in 0..100

\* C15: a confidence block that is present has score, understanding,
\* solution and sideEffects that are numbers in [0, 100] and a recommendation
\* that is one of proceed, ask, stop.
C15_ConfidenceClamp ==
    (fnIn.fn = "confidence" /\ fnOut.returned /\ fnOut.value.present) =>
        /\ InPercentRange(fnOut.value.score)
        /\ InPercentRange(fnOut.value.understanding)
        /\ InPercentRange(fnOut.value.solution)
        /\ InPercentRange(fnOut.value.sideEffects)
        /\ fnOut.value.recommendation \in {<<"p", "r", "o", "c", "e", "e", "d">>, <<"a", "s", "k">>, <<"s", "t", "o", "p">>}

\* C18: every request validatePipelineRequest accepts has a repo identifier
\* that splits on "/" into exactly two non-empty segments and a models list
\* whose elements are all among openai, anthropic, google.
C18_RequestInvariant ==
    (fnIn.fn = "validatePipelineRequest" /\ fnOut.returned /\ fnOut.value.ok) =>
        /\ Len(SplitSlash(fnOut.value.request.repo, <<>>)) = 2
        /\ \A k \in 1..2 : SplitSlash(fnOut.value.request.repo, <<>>)[k] # <<>>
        /\ \A k \in 1..Len(fnOut.value.request.models) :
               fnOut.value.request.models[k] \in {"openai", "anthropic", "google"}

\* a positive base-10 integer as it is written: decimal digits only, the
\* first of them not 0
IsPositiveDecimal(s) ==
    /\ s # <<>>
    /\ \A i \in 1..Len(s) : s[i] \in DigitChars
    /\ s[1] # "0"

HasChar(s, chars) == \E i \in 1..Len(s) : s[i] \in chars

\* the class the first matching rule gives a scope argument
ExpectedScopeType(scope) ==
    LET trimmed == IF scope \in {NULL, UNDEFINED} THEN <<>> ELSE Trim(scope)
    IN  IF trimmed = <<>> THEN "empty"
        ELSE IF IsPositiveDecimal(trimmed) THEN "commits"
        ELSE IF HasChar(trimmed, {"*", "?", "["}) THEN "glob"
        ELSE IF HasChar(trimmed, {"/"}) THEN "file"
        ELSE "invalid"

Drop(s, n) == SubSeq(s, n + 1, Len(s))

\* the whole path matches the whole pattern: "**" stands for any run of
\* characters, "*" for a run without "/", "?" for one character other than "/"
RECURSIVE GlobFullMatch(_, _)
GlobFullMatch(pattern, path) ==
    IF pattern = <<>> THEN path = <<>>
    ELSE IF Len(pattern) >= 2 /\ pattern[1] = "*" /\ pattern[2] = "*"
         THEN \E k \in 0..Len(path) : GlobFullMatch(Drop(pattern, 2), Drop(path, k))
    ELSE IF pattern[1] = "*"
         THEN \E k \in 0..Len(path) :
                  /\ \A m \in 1..k : path[m] # "/"
                  /\ GlobFullMatch(Tail(pattern), Drop(path, k))
    ELSE IF pattern[1] = "?"
         THEN path # <<>> /\ path[1] # "/" /\ GlobFullMatch(Tail(pattern), Tail(path))
    ELSE path # <<>> /\ path[1] = pattern[1] /\ GlobFullMatch(Tail(pattern), Tail(path))

SegmentCount(s) == Len(SplitSlash(s, <<>>))

\* C20: matchesGlob(path, pattern) holds exactly when the path matches the
\* pattern, with * inside one segment, ? one character and ** any number of
\* segments; a pattern without ** only matches paths that have as many
\* segments as the pattern.
C20_GlobSemantics ==
    (fnIn.fn = "matchesGlob" /\ fnOut.returned) =>
        /\ fnOut.value = GlobFullMatch(fnIn.glob, fnIn.filePath)
        /\ (fnOut.value /\ ~Includes(fnIn.glob, <<"*", "*">>)) =>
               SegmentCount(fnIn.filePath) = SegmentCount(fnIn.glob)

\* the JSON object an improver reply carries, if it carries one
ReplyObject(reply) ==
    IF reply.st = "ok" /\ ~reply.text.empty /\ reply.text.json.t = "obj"
    THEN reply.text.json ELSE JObj(<<>>)

\* C22: when the improver's provider call succeeds, improvePrompt does not
\* fail whatever the reply holds; each of improved prompt, keywords and maxFiles
\* that the reply lacks is replaced on its own by the trimmed goal, the
\* heuristic keywords and 12.  When the provider call fails, improvePrompt
\* fails with that failure.
C22_ImproverAsymmetry ==
    (fnIn.fn = "improvePrompt" /\ fnOut.returned) =>
        LET obj == ReplyObject(fnIn.reply)
            prompt == Field(obj, "improved_user_prompt")
            keywords == Field(Field(obj, "search"), "keywords")
            maxFiles == Field(Field(obj, "search"), "max_files")
            out == fnOut.value
        IN  IF fnIn.reply.st # "ok" \/ fnIn.reply.text.empty
            THEN ~out.ok /\ out.error[1] = fnIn.provider
            ELSE /\ out.ok
                 /\ prompt.t # "str" => out.value.improvedUserPrompt = Trim(fnIn.userMessage)
                 /\ prompt.t = "str" => out.value.improvedUserPrompt = prompt.v
                 /\ ~(IsStringArray(keywords) /\ Len(keywords.v) > 0) =>
                        out.value.keywords = extractKeywordsFallback(fnIn.userMessage)
                 /\ (IsStringArray(keywords) /\ Len(keywords.v) > 0) =>
                        /\ Len(out.value.keywords) = Min(Len(keywords.v), 20)
                        /\ \A i \in 1..Len(out.value.keywords) :
                               out.value.keywords[i] = keywords.v[i].v
                 /\ ~(maxFiles.t = "num" /\ maxFiles.finite) => out.value.maxFiles = 12
                 /\ (maxFiles.t = "num" /\ maxFiles.finite) =>
                        out.value.maxFiles = Max(4, Min(25, maxFiles.v))

\* a reply with a prompt and keywords but no max_files: only maxFiles falls back
C22_Witness ==
    /\ fnIn.fn = "improvePrompt" /\ fnOut.returned
    /\ fnIn.reply.st = "ok" /\ ~fnIn.reply.text.empty /\ fnIn.reply.text.wrap
    /\ fnOut.value.ok
    /\ fnOut.value.value.improvedUserPrompt = <<"b", "e", "t", "t", "e", "r">>
    /\ fnOut.value.value.keywords = <<<<"a", "u", "t", "h">>, <<"m", "o", "d", "a", "l">>>>
    /\ fnOut.value.value.maxFiles = 12
    /\ ~HasField(Field(ReplyObject(fnIn.reply), "search"), "max_files")

\* C25: the candidate list handed to the file loader has at most 25 paths.
\* executePipeline hands the loader the list rankFiles returned, as it is, with
\* maxFiles between 4 and 25.
C25_CandidateTruncation ==
    (fnIn.fn = "rankFiles" /\ fnOut.returned /\ fnIn.maxFiles \in 4..25) =>
        Len(fnOut.value) <= MAX_LOADER_PATHS

\* a substring <|x|> with x a non-empty run of characters other than |
HasSpecialToken(s) == \E i \in 1..Len(s) : MatchEnd("token", s, i) > 0

\* C28: the output of sanitizeFileContent holds no special token <|x|>,
\* whatever the input, also when taking one token out puts the two halves
\* of another next to each other.
C28_SpecialTokensStripped ==
    (fnIn.fn = "sanitizeFileContent" /\ fnOut.returned) => ~HasSpecialToken(fnOut.value)

\* the token that is left is one the input did not hold as such
C28_NestedTokenSurvives ==
    /\ fnIn.fn = "sanitizeFileContent" /\ fnOut.returned
    /\ fnIn.content = <<"<", "|", "<", "|", "a", "|", ">", "a", "|", ">">>
    /\ fnOut.value = <<"<", "|", "a", "|", ">">>

ExcludedDirectories ==
    {<<"n", "o", "d", "e", "_", "m", "o", "d", "u", "l", "e", "s", "/">>, <<".", "n", "e", "x", "t", "/">>}

\* C29: whatever list of at most 20 keywords it is given, rankFiles returns
\* no path that contains node_modules/ or .next/.
C29_ExcludedDirectories ==
    (fnIn.fn = "rankFiles" /\ fnOut.returned /\ Len(fnIn.keywords) <= 20) =>
        \A i \in 1..Len(fnOut.value) :
            \A dir \in ExcludedDirectories : ~Includes(ToLowerCase(fnOut.value[i]), dir)

\* thirteen keywords found in the file name outweigh the penalty
C29_PenaltyOutweighed ==
    /\ fnIn.fn = "rankFiles" /\ fnOut.returned
    /\ fnIn.keywords = FileNameKeywords
    /\ Len(fnIn.tree) >= 5
    /\ scorePath(fnIn.tree[5].path, fnIn.keywords) = 4
    /\ \E i \in 1..Len(fnOut.value) : fnOut.value[i] = fnIn.tree[5].path

====
